---- MODULE Spec2Model ----
(***************************************************************************)
(* State sync of a sharded client (chain/client/src/sync/state.rs): the    *)
(* per-shard download state machine driven by StateSync::run, the peer     *)
(* and external-storage dispatchers, the pending-request ledger, the       *)
(* response channel and the SamplerLimited iterator.                       *)
(***************************************************************************)
EXTENDS Integers, Sequences, FiniteSets, TLC

(***************************************************************************)
(* Bounds of the model.                                                    *)
(***************************************************************************)
\* MAX_STATE_PART_REQUEST (state.rs:65) is 16 in the source.  The model keeps
\* the name and scales the value, so that a shard with a few parts reaches the cap.
MAX_STATE_PART_REQUEST == 2
\* the configured timeout (state.rs:143), in clock ticks
Timeout == 1
\* the clock stops advancing at MaxTime
MaxTime == 2
\* the largest num_state_parts a state header reports
MaxParts == 3
\* cap on DownloadStatus.state_requests_count
MaxRequestsCount == 2
\* the semaphore's permits (num_concurrent_requests, state.rs:191-198)
NumPermits == 2
\* sampler inputs: longest data vector and largest limit
MaxData == 3
MaxLimit == 3

Peers == {"p1", "p2"}
Shards == {0, 1}
NoPeer == "None"
\* the sync hashes of two syncs, the earlier and the later
Hashes == <<"G", "H">>

(***************************************************************************)
(* SamplerLimited (state.rs:1268-1308).  Vectors are sequences; the random *)
(* index ix of gen_range(0..len) is the 1-based position ix + 1.           *)
(***************************************************************************)
\* SamplerLimited::new that allows every element once more than the limit
SamplerNew_OneMore(data, limit) ==
    [data |-> data, limit |-> [i \in 1..Len(data) |-> limit + 1]]

SamplerNew(data, limit) ==
    IF limit = 0
    THEN [data |-> <<>>, limit |-> <<>>]
    ELSE [data |-> data, limit |-> [i \in 1..Len(data) |-> limit]]

Swap(seq, i, j) ==
    [seq EXCEPT ![i] = seq[j], ![j] = seq[i]]

Pop(seq) ==
    SubSeq(seq, 1, Len(seq) - 1)

\* next() that forgets the swap-remove: it pops the last element whichever
\* element ran out
SamplerNextAt_NoSwap(s, ix) ==
    LET lim1 == [s.limit EXCEPT ![ix] = @ - 1]
    IN  IF lim1[ix] = 0
        THEN [item |-> s.data[Len(s.data)],
              next |-> [data |-> Pop(s.data), limit |-> Pop(lim1)]]
        ELSE [item |-> s.data[ix],
              next |-> [data |-> s.data, limit |-> lim1]]

\* One call of next() on a non-empty sampler that draws position ix:
\* the item yielded and the sampler afterwards.
SamplerNextAt(s, ix) ==
    LET len == Len(s.limit)
        lim1 == [s.limit EXCEPT ![ix] = @ - 1]
    IN  IF lim1[ix] = 0
        THEN LET lim2 == IF ix # len THEN [lim1 EXCEPT ![ix] = lim1[len]] ELSE lim1
                 dat2 == IF ix # len THEN Swap(s.data, ix, len) ELSE s.data
             IN  [item |-> dat2[Len(dat2)],
                  next |-> [data |-> Pop(dat2), limit |-> Pop(lim2)]]
        ELSE [item |-> s.data[ix],
              next |-> [data |-> s.data, limit |-> lim1]]

SamplerEmpty(s) ==
    Len(s.limit) = 0


(***************************************************************************)
(* State.                                                                  *)
(***************************************************************************)
VARIABLES
    \* fixed at construction or by the chain: StateSyncInner variant, the shards
    \* to sync, num_state_parts of each shard's header, will_shard_layout_change,
    \* prev_shard_layout != shard_layout, whether operations of the chain store may fail
    mode, tracking_shards, num_state_parts, split_states, layout_differs, chain_faults,
    \* what is explored of the network: whether the peer manager may answer
    \* RouteNotFound and peers may send what was not asked for, and the lists of
    \* highest_height_peers that calls of run are given
    net_faults, peer_lists,
    \* the time at which the clock of the run stops
    max_time,
    \* the sync_hash that the calls of run are given
    cur_sync_hash,
    \* StaticClock::utc() and chain.block_exists(prev_hash)
    now, block_exists,
    \* the caller's HashMap<u64, ShardSyncDownload>
    sync_status,
    \* StateSyncInner::Peers
    last_part_id_requested, requested_target,
    \* StateSync fields
    last_time_block_requested, state_parts_apply_results, split_state_roots,
    state_parts_mpsc,
    \* StateSyncInner::PartsFromExternal: free permits, spawned fetch tasks
    semaphore, tasks,
    \* network requests handed to the peer manager and not yet answered, and
    \* the (peer, shard, part) of every part request of this sync so far
    requests, asked,
    \* chain store: DBCol::StateParts keys, shards whose state header is stored,
    \* keys whose data passed validation, keys whose data failed it
    state_parts, state_headers, validated, rejected,
    \* requests handed to the apply-parts and split-state schedulers
    apply_scheduled, split_scheduled,
    \* what run returned, if the last thing that happened is a call of run
    run_result,
    \* the calls of run since anything else happened, counted up to 2
    calls,
    \* the highest_height_peers that the call that has just returned was given
    run_peers,
    \* for each DownloadStatus of each shard, the time of the call of run that
    \* made its latest request (NoTime if none was made)
    issued,
    \* a SamplerLimited under test: its input, itself, what it yielded, whether
    \* it has returned None
    smp_in, smp, smp_out, smp_none

statics == <<mode, tracking_shards, num_state_parts, split_states, layout_differs,
             chain_faults, net_faults, peer_lists, max_time>>
confvars == <<statics, cur_sync_hash>>
syncvars == <<sync_status, last_part_id_requested, requested_target,
              last_time_block_requested, state_parts_apply_results, split_state_roots,
              state_parts_mpsc, semaphore, tasks, requests, asked, state_parts,
              state_headers, validated, rejected, apply_scheduled, split_scheduled>>
smpvars == <<smp_in, smp, smp_out, smp_none>>
vars == <<confvars, now, block_exists, syncvars, run_result, calls, run_peers, issued,
          smpvars>>

\* the sync_hash of the sync in progress
Hash == cur_sync_hash

(***************************************************************************)
(* Maps (HashMap, LruCache) as functions on their key sets, and multisets  *)
(* as maps to counts.                                                      *)
(***************************************************************************)
EmptyMap == [k \in {} |-> 0]

MapPut(m, k, v) ==
    [x \in DOMAIN m \cup {k} |-> IF x = k THEN v ELSE m[x]]

MapRemove(m, k) ==
    [x \in DOMAIN m \ {k} |-> m[x]]

BagAdd(b, e) ==
    IF e \in DOMAIN b THEN [b EXCEPT ![e] = @ + 1] ELSE MapPut(b, e, 1)

BagRemove(b, e) ==
    IF e \notin DOMAIN b THEN b
    ELSE IF b[e] = 1 THEN MapRemove(b, e) ELSE [b EXCEPT ![e] = @ - 1]

RECURSIVE BagSize(_)
BagSize(b) ==
    IF DOMAIN b = {} THEN 0
    ELSE LET e == CHOOSE x \in DOMAIN b : TRUE
         IN  b[e] + BagSize(MapRemove(b, e))

(***************************************************************************)
(* near_client_primitives::types::{DownloadStatus, ShardSyncDownload}.     *)
(***************************************************************************)
DownloadStatusNew(t) ==
    [run_me |-> TRUE, done |-> FALSE, error |-> FALSE, state_requests_count |-> 0,
     last_target |-> NoPeer, prev_update_time |-> t]

new_download_state_header(t) ==
    [status |-> "StateDownloadHeader", downloads |-> <<DownloadStatusNew(t)>>]

new_download_state_parts(t, num_parts) ==
    [status |-> "StateDownloadParts",
     downloads |-> [i \in 1..num_parts |-> DownloadStatusNew(t)]]

\* ShardSyncDownload { downloads: vec![], status }
Phase(status) ==
    [status |-> status, downloads |-> <<>>]

\* a shard with no entry in the map
Absent == Phase("Absent")

\* PendingRequestStatus::new and ::expired (state.rs:88-95)
PendingRequestStatusNew(t) ==
    [missing_parts |-> 1, wait_until |-> t + Timeout]

expired(request, t) ==
    t > request.wait_until

\* The run_me Arc of a dropped DownloadStatus is no longer read by anyone: the
\* requests of the shard keep a flag that nothing observes.
Detach(reqs, shard_id) ==
    LET dead(r) == IF r.shard_id = shard_id THEN [r EXCEPT !.live = FALSE] ELSE r
        keys == {dead(r) : r \in DOMAIN reqs}
        total(k) == LET src == {r \in DOMAIN reqs : dead(r) = k}
                        RECURSIVE Sum(_)
                        Sum(S) == IF S = {} THEN 0
                                  ELSE LET x == CHOOSE y \in S : TRUE
                                       IN  reqs[x] + Sum(S \ {x})
                    IN  Sum(src)
    IN  [k \in keys |-> total(k)]


(***************************************************************************)
(* The part of the state that run and the handlers read and write, as one  *)
(* record, so that the steps of a call compose as functions.               *)
(***************************************************************************)
Current ==
    [sync_status |-> sync_status,
     last_part_id_requested |-> last_part_id_requested,
     requested_target |-> requested_target,
     last_time_block_requested |-> last_time_block_requested,
     state_parts_apply_results |-> state_parts_apply_results,
     split_state_roots |-> split_state_roots,
     state_parts_mpsc |-> state_parts_mpsc,
     semaphore |-> semaphore,
     tasks |-> tasks,
     requests |-> requests,
     asked |-> asked,
     state_parts |-> state_parts,
     state_headers |-> state_headers,
     validated |-> validated,
     rejected |-> rejected,
     apply_scheduled |-> apply_scheduled,
     split_scheduled |-> split_scheduled]

\* Option<DateTime>::None
NoTime == -1

\* sync_block_status that asks again only when the request is older than timeout
sync_block_status_Late(last_time, exists, t) ==
    LET request_block == ~exists /\ (last_time = NoTime \/ t - last_time > Timeout)
    IN  [request_block |-> request_block,
         have_block |-> exists,
         last_time_block_requested |->
             IF request_block THEN t
             ELSE IF exists THEN NoTime ELSE last_time]

\* sync_block_status (state.rs:217-247)
sync_block_status(last_time, exists, t) ==
    LET request_block == ~exists /\ (last_time = NoTime \/ t - last_time >= Timeout)
    IN  [request_block |-> request_block,
         have_block |-> exists,
         last_time_block_requested |->
             IF request_block THEN t
             ELSE IF exists THEN NoTime ELSE last_time]

\* process_part_response that takes every result for a success
process_part_response_AnyResult(part_download, part_result) ==
    [part_download EXCEPT !.done = TRUE]

\* process_part_response (state.rs:1219-1246)
process_part_response(part_download, part_result) ==
    IF part_result = "Ok"
    THEN [part_download EXCEPT !.done = TRUE]
    ELSE [part_download EXCEPT !.error = TRUE]

\* the loop body that does not compare the message's sync_hash
ProcessMessage_AnyHash(ss, sync_hash, msg) ==
    IF msg.shard_id \notin DOMAIN ss \/ ss[msg.shard_id].status = "Absent" THEN ss
    ELSE IF ss[msg.shard_id].status # "StateDownloadParts" THEN ss
    ELSE IF msg.part_id + 1 \notin DOMAIN ss[msg.shard_id].downloads THEN ss
    ELSE [ss EXCEPT ![msg.shard_id].downloads[msg.part_id + 1] =
              process_part_response(@, msg.part_result)]

\* the loop body that does not look at the shard's status
ProcessMessage_AnyStatus(ss, sync_hash, msg) ==
    IF msg.sync_hash # sync_hash THEN ss
    ELSE IF msg.shard_id \notin DOMAIN ss \/ ss[msg.shard_id].status = "Absent" THEN ss
    ELSE IF msg.part_id + 1 \notin DOMAIN ss[msg.shard_id].downloads THEN ss
    ELSE [ss EXCEPT ![msg.shard_id].downloads[msg.part_id + 1] =
              process_part_response(@, msg.part_result)]

\* the body of the loop of process_downloaded_parts for one message
ProcessMessage(ss, sync_hash, msg) ==
    IF msg.sync_hash # sync_hash THEN ss
    ELSE IF msg.shard_id \notin DOMAIN ss \/ ss[msg.shard_id].status = "Absent" THEN ss
    ELSE IF ss[msg.shard_id].status # "StateDownloadParts" THEN ss
    ELSE IF msg.part_id + 1 \notin DOMAIN ss[msg.shard_id].downloads THEN ss
    ELSE [ss EXCEPT ![msg.shard_id].downloads[msg.part_id + 1] =
              process_part_response(@, msg.part_result)]

\* process_downloaded_parts (state.rs:399-435): drains the channel in order
RECURSIVE process_downloaded_parts(_, _, _)
process_downloaded_parts(ss, sync_hash, msgs) ==
    IF msgs = <<>> THEN ss
    ELSE process_downloaded_parts(ProcessMessage(ss, sync_hash, Head(msgs)),
                                  sync_hash, Tail(msgs))

(***************************************************************************)
(* The per-status steps of sync_shards_status.  Each gives the set of its  *)
(* possible results [st, run, done, err]: the state afterwards, whether    *)
(* requests are to be issued (run_shard_state_download), whether the shard *)
(* is done, and the chain operation that failed ("none" if none).          *)
(***************************************************************************)
Result(st, run, done, err) ==
    [st |-> st, run |-> run, done |-> done, err |-> err]

\* the results that need an operation of the chain to fail
Faulty(results) ==
    IF chain_faults THEN results ELSE {}

\* sets one shard's record, dropping the DownloadStatus entries it had
Replace(st, shard_id, download) ==
    [st EXCEPT !.sync_status[shard_id] = download,
               !.requests = Detach(@, shard_id)]

\* the retry decision of the header phase (state.rs:853-871)
HeaderRetry(download, t) ==
    IF t - download.prev_update_time > Timeout \/ download.error
    THEN [download EXCEPT !.run_me = TRUE, !.error = FALSE, !.prev_update_time = t]
    ELSE download

\* sync_shards_download_header_status that leaves the first requests of the
\* parts to the next call
sync_shards_download_header_status_NoDispatch(st, shard_id, t) ==
    LET download == st.sync_status[shard_id].downloads[1]
    IN  IF download.done
        THEN Faulty({ Result(st, FALSE, FALSE, "get_state_header") })
             \cup { Result(Replace(st, shard_id,
                                   new_download_state_parts(t, num_state_parts[shard_id])),
                           FALSE, FALSE, "none") }
        ELSE LET d2 == HeaderRetry(download, t)
             IN  { Result([st EXCEPT !.sync_status[shard_id].downloads[1] = d2],
                          d2.run_me, FALSE, "none") }

\* sync_shards_download_header_status that takes a shard without parts through
\* the parts phase in the same call
sync_shards_download_header_status_Through(st, shard_id, t) ==
    LET download == st.sync_status[shard_id].downloads[1]
    IN  IF download.done
        THEN Faulty({ Result(st, FALSE, FALSE, "get_state_header") })
             \cup { Result(Replace(st, shard_id,
                                   IF num_state_parts[shard_id] = 0
                                   THEN Phase("StateDownloadScheduling")
                                   ELSE new_download_state_parts(
                                            t, num_state_parts[shard_id])),
                           TRUE, FALSE, "none") }
        ELSE LET d2 == HeaderRetry(download, t)
             IN  { Result([st EXCEPT !.sync_status[shard_id].downloads[1] = d2],
                          d2.run_me, FALSE, "none") }

\* sync_shards_download_header_status that has the header requested whether or
\* not run_me is set
sync_shards_download_header_status_AlwaysRun(st, shard_id, t) ==
    LET download == st.sync_status[shard_id].downloads[1]
    IN  IF download.done
        THEN Faulty({ Result(st, FALSE, FALSE, "get_state_header") })
             \cup { Result(Replace(st, shard_id,
                                   new_download_state_parts(t, num_state_parts[shard_id])),
                           TRUE, FALSE, "none") }
        ELSE LET d2 == HeaderRetry(download, t)
             IN  { Result([st EXCEPT !.sync_status[shard_id].downloads[1] = d2],
                          TRUE, FALSE, "none") }

\* sync_shards_download_header_status (state.rs:834-873)
sync_shards_download_header_status(st, shard_id, t) ==
    LET download == st.sync_status[shard_id].downloads[1]
    IN  IF download.done
        THEN Faulty({ Result(st, FALSE, FALSE, "get_state_header") })
             \cup { Result(Replace(st, shard_id,
                                   new_download_state_parts(t, num_state_parts[shard_id])),
                           TRUE, FALSE, "none") }
        ELSE LET d2 == HeaderRetry(download, t)
             IN  { Result([st EXCEPT !.sync_status[shard_id].downloads[1] = d2],
                          d2.run_me, FALSE, "none") }

\* the retry decision that takes every failed part up again at once
PartRetry_AtOnce(part_download, t) ==
    LET part_timeout == t - part_download.prev_update_time > Timeout
    IN  IF ~part_download.done /\ (part_timeout \/ part_download.error)
        THEN [part_download EXCEPT !.run_me = TRUE, !.error = FALSE,
                                   !.prev_update_time = t]
        ELSE part_download

\* the retry decision that waits for the timeout after every error
PartRetry_OnTimeout(part_download, t) ==
    LET part_timeout == t - part_download.prev_update_time > Timeout
    IN  IF ~part_download.done /\ part_timeout
        THEN [part_download EXCEPT !.run_me = TRUE, !.error = FALSE,
                                   !.prev_update_time = t]
        ELSE part_download

\* the retry decision for one part (state.rs:894-912)
PartRetry(part_download, t) ==
    LET part_timeout == t - part_download.prev_update_time > Timeout
    IN  IF ~part_download.done
           /\ (part_timeout \/ part_download.error)
           /\ (part_timeout \/ part_download.last_target # NoPeer)
        THEN [part_download EXCEPT !.run_me = TRUE, !.error = FALSE,
                                   !.prev_update_time = t]
        ELSE part_download

\* sync_shards_download_parts_status that takes the parts for done only when
\* there is a part
sync_shards_download_parts_status_SomePart(st, shard_id, t) ==
    LET downloads == st.sync_status[shard_id].downloads
        d2 == [i \in DOMAIN downloads |-> PartRetry(downloads[i], t)]
        parts_done == d2 # <<>> /\ \A i \in DOMAIN d2 : d2[i].done
        run == \E i \in DOMAIN d2 : ~d2[i].done /\ d2[i].run_me
    IN  IF parts_done
        THEN { Result(Replace(st, shard_id, Phase("StateDownloadScheduling")),
                      run, FALSE, "none") }
        ELSE { Result([st EXCEPT !.sync_status[shard_id].downloads = d2],
                      run, FALSE, "none") }

\* sync_shards_download_parts_status that keeps the downloads of the parts when
\* it moves the shard to scheduling
sync_shards_download_parts_status_KeepDownloads(st, shard_id, t) ==
    LET downloads == st.sync_status[shard_id].downloads
        d2 == [i \in DOMAIN downloads |-> PartRetry(downloads[i], t)]
        parts_done == \A i \in DOMAIN d2 : d2[i].done
        run == \E i \in DOMAIN d2 : ~d2[i].done /\ d2[i].run_me
    IN  IF parts_done
        THEN { Result([st EXCEPT !.sync_status[shard_id].downloads = d2,
                                 !.sync_status[shard_id].status =
                                     "StateDownloadScheduling"],
                      run, FALSE, "none") }
        ELSE { Result([st EXCEPT !.sync_status[shard_id].downloads = d2],
                      run, FALSE, "none") }

\* sync_shards_download_parts_status (state.rs:880-935)
sync_shards_download_parts_status(st, shard_id, t) ==
    LET downloads == st.sync_status[shard_id].downloads
        d2 == [i \in DOMAIN downloads |-> PartRetry(downloads[i], t)]
        parts_done == \A i \in DOMAIN d2 : d2[i].done
        run == \E i \in DOMAIN d2 : ~d2[i].done /\ d2[i].run_me
    IN  IF parts_done
        THEN { Result(Replace(st, shard_id, Phase("StateDownloadScheduling")),
                      run, FALSE, "none") }
        ELSE { Result([st EXCEPT !.sync_status[shard_id].downloads = d2],
                      run, FALSE, "none") }

\* chain.clear_downloaded_parts(shard_id, sync_hash, num_parts)
clear_downloaded_parts(parts, shard_id, sync_hash) ==
    {k \in parts : ~(k.sync_hash = sync_hash /\ k.shard_id = shard_id
                     /\ k.part_id < num_state_parts[shard_id])}

\* the restart that leaves the parts in the store
Restart_KeepParts(st, shard_id, t) ==
    { Result(Replace(st, shard_id, new_download_state_header(t)), FALSE, FALSE, "none") }

\* "start from the very beginning" (state.rs:963-970 and 993-1004): the record is
\* reset, then the parts are wiped, which may fail
Restart(st, shard_id, t) ==
    LET reset == Replace(st, shard_id, new_download_state_header(t))
    IN  { Result([reset EXCEPT !.state_parts = clear_downloaded_parts(@, shard_id, Hash)],
                 FALSE, FALSE, "none") }
        \cup Faulty({ Result(reset, FALSE, FALSE, "clear_downloaded_parts") })

\* sync_shards_download_scheduling_status (state.rs:937-973)
sync_shards_download_scheduling_status(st, shard_id, t) ==
    { Result([Replace(st, shard_id, Phase("StateDownloadApplying"))
                 EXCEPT !.apply_scheduled[shard_id] = TRUE],
             FALSE, FALSE, "none") }
    \cup Faulty({ Result(st, FALSE, FALSE, "get_state_header") })
    \cup Faulty(Restart(st, shard_id, t))

\* the Err arm of set_state_finalize (state.rs:993-1004)
ApplyFailed(st, shard_id, t) ==
    Restart(st, shard_id, t)
    \cup Faulty({ Result(Replace(st, shard_id, new_download_state_header(t)),
                         FALSE, FALSE, "get_state_header") })

\* the applying step that does not wait for the result of the application
sync_shards_download_applying_status_NoWait(st, shard_id, t) ==
    { Result(Replace([st EXCEPT !.state_parts_apply_results[shard_id] = "None"],
                     shard_id, Phase("StateDownloadComplete")),
             FALSE, FALSE, "none") }

\* sync_shards_download_applying_status (state.rs:975-1008)
sync_shards_download_applying_status(st, shard_id, t) ==
    LET result == st.state_parts_apply_results[shard_id]
        taken == [st EXCEPT !.state_parts_apply_results[shard_id] = "None"]
    IN  IF result = "None" THEN { Result(st, FALSE, FALSE, "none") }
        ELSE IF result = "Ok"
        THEN { Result(Replace(taken, shard_id, Phase("StateDownloadComplete")),
                      FALSE, FALSE, "none") }
             \cup Faulty(ApplyFailed(taken, shard_id, t))
        ELSE ApplyFailed(taken, shard_id, t)

\* the complete step that never goes on to the split
sync_shards_download_complete_status_NoSplit(st, shard_id) ==
    { Result(Replace(st, shard_id, Phase("StateSyncDone")), FALSE, TRUE, "none") }

\* sync_shards_download_complete_status (state.rs:1010-1028)
sync_shards_download_complete_status(st, shard_id) ==
    IF split_states
    THEN { Result(Replace(st, shard_id, Phase("StateSplitScheduling")),
                  FALSE, FALSE, "none") }
    ELSE { Result(Replace(st, shard_id, Phase("StateSyncDone")), FALSE, TRUE, "none") }

\* sync_shards_state_split_scheduling_status (state.rs:1030-1048)
sync_shards_state_split_scheduling_status(st, shard_id) ==
    { Result([Replace(st, shard_id, Phase("StateSplitApplying"))
                 EXCEPT !.split_scheduled[shard_id] = TRUE],
             FALSE, FALSE, "none") }
    \cup Faulty({ Result(st, FALSE, FALSE, "build_state_for_split_shards_preprocessing") })

\* sync_shards_state_split_applying_status (state.rs:1051-1071)
sync_shards_state_split_applying_status(st, shard_id) ==
    LET result == st.split_state_roots[shard_id]
        taken == [st EXCEPT !.split_state_roots[shard_id] = "None"]
    IN  IF result = "None" THEN { Result(st, FALSE, FALSE, "none") }
        ELSE IF result = "Err" THEN { Result(taken, FALSE, FALSE, "split_state_roots") }
        ELSE { Result(Replace(taken, shard_id, Phase("StateSyncDone")),
                      FALSE, TRUE, "none") }
             \cup Faulty({ Result(taken, FALSE, FALSE,
                                  "build_state_for_split_shards_postprocessing") })


(***************************************************************************)
(* Issuing requests.                                                       *)
(***************************************************************************)
\* select_peers that keeps the expired entries of the ledger
select_peers_NoSweep(st, highest_height_peers, shard_id, t) ==
    IF mode = "Peers"
    THEN [st |-> st,
          targets |-> SelectSeq(highest_height_peers,
                                LAMBDA peer : <<peer, shard_id>> \notin
                                                DOMAIN st.last_part_id_requested)]
    ELSE [st |-> st, targets |-> highest_height_peers]

\* select_peers that does not leave out the peers with a pending request
select_peers_NoFilter(st, highest_height_peers, shard_id, t) ==
    IF mode = "Peers"
    THEN LET ledger == st.last_part_id_requested
             kept == [k \in {x \in DOMAIN ledger : ~expired(ledger[x], t)} |-> ledger[k]]
         IN  [st |-> [st EXCEPT !.last_part_id_requested = kept],
              targets |-> highest_height_peers]
    ELSE [st |-> st, targets |-> highest_height_peers]

\* select_peers (state.rs:508-529): the ledger after the sweep, and the targets
select_peers(st, highest_height_peers, shard_id, t) ==
    IF mode = "Peers"
    THEN LET ledger == st.last_part_id_requested
             kept == [k \in {x \in DOMAIN ledger : ~expired(ledger[x], t)} |-> ledger[k]]
         IN  [st |-> [st EXCEPT !.last_part_id_requested = kept],
              targets |-> SelectSeq(highest_height_peers,
                                    LAMBDA peer : <<peer, shard_id>> \notin DOMAIN kept)]
    ELSE [st |-> st, targets |-> highest_height_peers]

\* A request handed to the peer manager.  routed: the peer manager finds a route
\* and the peer gets the request; otherwise the future of send_async resolves to
\* RouteNotFound.  live: the run_me Arc the future holds is the one of the shard's
\* current DownloadStatus (a routed request's future writes nothing).
NetRequest(kind, shard_id, part_id, peer, routed) ==
    [kind |-> kind, shard_id |-> shard_id, part_id |-> part_id, peer |-> peer,
     routed |-> routed, live |-> ~routed]

\* the answers of the peer manager that are explored
Routes == IF net_faults THEN BOOLEAN ELSE {TRUE}

\* request_shard_header that does not record the peer it asks
request_shard_header_NoTarget(st, shard_id, peer_id, routed) ==
    IF ~st.sync_status[shard_id].downloads[1].run_me
    THEN Result(st, FALSE, FALSE, "assert run_me")
    ELSE Result([st EXCEPT
                    !.sync_status[shard_id].downloads[1] =
                        [@ EXCEPT !.run_me = FALSE,
                                  !.state_requests_count = @ + 1],
                    !.requests = BagAdd(@, NetRequest("header", shard_id, 0, peer_id,
                                                      routed))],
                FALSE, FALSE, "none")

\* request_shard_header (state.rs:578-608) towards the chosen peer_id
request_shard_header(st, shard_id, peer_id, routed) ==
    IF ~st.sync_status[shard_id].downloads[1].run_me
    THEN Result(st, FALSE, FALSE, "assert run_me")
    ELSE Result([st EXCEPT
                    !.sync_status[shard_id].downloads[1] =
                        [@ EXCEPT !.run_me = FALSE,
                                  !.state_requests_count = @ + 1,
                                  !.last_target = peer_id],
                    !.requests = BagAdd(@, NetRequest("header", shard_id, 0, peer_id,
                                                      routed))],
                FALSE, FALSE, "none")

\* parts_to_fetch (state.rs:1075-1084): the indices of the parts with run_me set
parts_to_fetch(downloads) ==
    LET F[i \in 0..Len(downloads)] ==
            IF i = 0 THEN <<>>
            ELSE IF downloads[i].run_me THEN Append(F[i - 1], i - 1) ELSE F[i - 1]
    IN  F[Len(downloads)]

\* sent_request_part (state.rs:1197-1214)
sent_request_part(st, peer_id, part_id, shard_id, sync_hash, t) ==
    LET ledger == st.last_part_id_requested
        key == <<peer_id, shard_id>>
    IN  [st EXCEPT
            !.requested_target = MapPut(@, <<part_id, sync_hash>>, peer_id),
            !.last_part_id_requested =
                IF key \in DOMAIN ledger
                THEN [ledger EXCEPT ![key].missing_parts = @ + 1]
                ELSE MapPut(ledger, key, PendingRequestStatusNew(t))]

\* request_part_from_peers (state.rs:1164-1195)
request_part_from_peers(st, part_id, peer_id, shard_id, routed) ==
    [st EXCEPT
        !.sync_status[shard_id].downloads[part_id + 1] =
            [@ EXCEPT !.run_me = FALSE,
                      !.state_requests_count = @ + 1,
                      !.last_target = peer_id],
        !.requests = BagAdd(@, NetRequest("part", shard_id, part_id, peer_id, routed)),
        !.asked = @ \cup {<<peer_id, shard_id, part_id>>}]

\* parts_to_fetch(..).zip(possible_targets_sampler), over every draw of the
\* sampler: the sequences of (part_id, target) the loop may run through, each
\* with the answer the peer manager will give
RECURSIVE ZipSampler(_, _)
ZipSampler(parts, sampler) ==
    IF parts = <<>> \/ SamplerEmpty(sampler) THEN { <<>> }
    ELSE UNION { LET r == SamplerNextAt(sampler, ix)
                 IN  { <<[part_id |-> Head(parts), target |-> r.item, routed |-> routed]>>
                         \o rest :
                         rest \in ZipSampler(Tail(parts), r.next), routed \in Routes } :
                 ix \in 1..Len(sampler.limit) }

RECURSIVE RequestPairs(_, _, _, _)
RequestPairs(st, pairs, shard_id, t) ==
    IF pairs = <<>> THEN st
    ELSE LET p == Head(pairs)
             st1 == sent_request_part(st, p.target, p.part_id, shard_id, Hash, t)
             st2 == request_part_from_peers(st1, p.part_id, p.target, shard_id, p.routed)
         IN  RequestPairs(st2, Tail(pairs), shard_id, t)

FetchTask(shard_id, part_id) ==
    [sync_hash |-> Hash, shard_id |-> shard_id, part_id |-> part_id,
     pc |-> "get", part_result |-> "None"]

\* request_part_from_external_storage (state.rs:1087-1161), up to the spawn
request_part_from_external_storage(st, part_id, shard_id) ==
    LET download == st.sync_status[shard_id].downloads[part_id + 1]
        counted == [download EXCEPT !.run_me = FALSE,
                                    !.state_requests_count = @ + 1,
                                    !.last_target = NoPeer]
    IN  IF ~download.run_me THEN st
        ELSE IF st.semaphore > 0
        THEN [st EXCEPT !.sync_status[shard_id].downloads[part_id + 1] = counted,
                        !.semaphore = @ - 1,
                        !.tasks = BagAdd(@, FetchTask(shard_id, part_id))]
        ELSE [st EXCEPT !.sync_status[shard_id].downloads[part_id + 1] =
                            [counted EXCEPT !.run_me = TRUE]]

\* the loop of the PartsFromExternal arm of request_shard_parts (state.rs:667-687)
RECURSIVE ExternalParts(_, _, _)
ExternalParts(st, parts, shard_id) ==
    IF parts = <<>> THEN st
    ELSE LET st1 == request_part_from_external_storage(st, Head(parts), shard_id)
         IN  IF st1.semaphore = 0 THEN st1
             ELSE ExternalParts(st1, Tail(parts), shard_id)

\* request_shard_parts (state.rs:611-690): the states it may leave
request_shard_parts(st, shard_id, possible_targets, t) ==
    LET parts == parts_to_fetch(st.sync_status[shard_id].downloads)
    IN  IF mode = "Peers"
        THEN { RequestPairs(st, pairs, shard_id, t) :
                 pairs \in ZipSampler(parts,
                                      SamplerNew(possible_targets, MAX_STATE_PART_REQUEST)) }
        ELSE { ExternalParts(st, parts, shard_id) }

\* request_shard (state.rs:532-575)
request_shard(st, shard_id, highest_height_peers, t) ==
    LET sel == select_peers(st, highest_height_peers, shard_id, t)
        status == sel.st.sync_status[shard_id].status
        targets == {sel.targets[i] : i \in DOMAIN sel.targets}
    IN  IF sel.targets = <<>> THEN { Result(sel.st, FALSE, FALSE, "none") }
        ELSE IF status = "StateDownloadHeader"
        THEN { request_shard_header(sel.st, shard_id, peer_id, routed) :
                 peer_id \in targets, routed \in Routes }
        ELSE IF status = "StateDownloadParts"
        THEN { Result(s2, FALSE, FALSE, "none") :
                 s2 \in request_shard_parts(sel.st, shard_id, sel.targets, t) }
             \* chain.get_state_header(shard_id, sync_hash).unwrap() (state.rs:664)
             \cup IF mode = "Peers" THEN {}
                  ELSE Faulty({ Result(sel.st, FALSE, FALSE, "unwrap get_state_header") })
        ELSE { Result(sel.st, FALSE, FALSE, "none") }

(***************************************************************************)
(* sync_shards_status and run.                                             *)
(***************************************************************************)
\* the match on the shard's status (state.rs:291-355)
StatusStep(st, shard_id, t) ==
    LET status == st.sync_status[shard_id].status
    IN  CASE status = "StateDownloadHeader" ->
                 sync_shards_download_header_status(st, shard_id, t)
          [] status = "StateDownloadParts" ->
                 sync_shards_download_parts_status(st, shard_id, t)
          [] status = "StateDownloadScheduling" ->
                 sync_shards_download_scheduling_status(st, shard_id, t)
          [] status = "StateDownloadApplying" ->
                 sync_shards_download_applying_status(st, shard_id, t)
          [] status = "StateDownloadComplete" ->
                 sync_shards_download_complete_status(st, shard_id)
          [] status = "StateSplitScheduling" ->
                 sync_shards_state_split_scheduling_status(st, shard_id)
          [] status = "StateSplitApplying" ->
                 sync_shards_state_split_applying_status(st, shard_id)
          [] OTHER -> { Result(st, FALSE, TRUE, "none") }

\* one iteration of the loop over tracking_shards (state.rs:281-393)
ShardStep(st, shard_id, highest_height_peers, t) ==
    LET st0 == IF st.sync_status[shard_id].status = "Absent"
               THEN [st EXCEPT !.sync_status[shard_id] = new_download_state_header(t)]
               ELSE st
    IN  UNION { IF r.err = "none" /\ r.run
                THEN { [q EXCEPT !.done = r.done] :
                         q \in request_shard(r.st, shard_id, highest_height_peers, t) }
                ELSE { r } :
                r \in StatusStep(st0, shard_id, t) }

\* the loop that goes on to the other shards after a failed step and returns the
\* error at the end
RECURSIVE ShardLoop_KeepGoing(_, _, _, _, _)
ShardLoop_KeepGoing(st, shards, highest_height_peers, t, all_done) ==
    IF shards = <<>>
    THEN { [st |-> st, all_done |-> all_done, err |-> "none", shard_id |-> -1] }
    ELSE UNION { IF r.err # "none"
                 THEN { [o EXCEPT !.all_done = FALSE, !.err = r.err,
                                  !.shard_id = Head(shards)] :
                          o \in ShardLoop_KeepGoing(r.st, Tail(shards),
                                                    highest_height_peers, t, FALSE) }
                 ELSE ShardLoop_KeepGoing(r.st, Tail(shards), highest_height_peers, t,
                                          all_done /\ r.done) :
                 r \in ShardStep(st, Head(shards), highest_height_peers, t) }

\* the loop over tracking_shards: the `?` of a failed step leaves the loop
RECURSIVE ShardLoop(_, _, _, _, _)
ShardLoop(st, shards, highest_height_peers, t, all_done) ==
    IF shards = <<>>
    THEN { [st |-> st, all_done |-> all_done, err |-> "none", shard_id |-> -1] }
    ELSE UNION { IF r.err # "none"
                 THEN { [st |-> r.st, all_done |-> FALSE, err |-> r.err,
                         shard_id |-> Head(shards)] }
                 ELSE ShardLoop(r.st, Tail(shards), highest_height_peers, t,
                                all_done /\ r.done) :
                 r \in ShardStep(st, Head(shards), highest_height_peers, t) }

RunResult(kind, op, shard_id) ==
    [kind |-> kind, op |-> op, shard_id |-> shard_id]

\* no call of run has just returned
NoResult == RunResult("None", "none", -1)

\* the result of run without the gate on the sync block
StateSyncResult_NoGate(request_block, have_block, all_done) ==
    IF all_done THEN "Completed"
    ELSE IF request_block THEN "RequestBlock" ELSE "InProgress"

\* the end of run (state.rs:737-760)
StateSyncResult(request_block, have_block, all_done) ==
    IF have_block /\ all_done THEN "Completed"
    ELSE IF request_block THEN "RequestBlock" ELSE "InProgress"

\* run that does not compare the shard layouts
RunOutcomes_NoLayoutCheck(st, highest_height_peers, t) ==
    LET sb == sync_block_status(st.last_time_block_requested, block_exists, t)
        st1 == [st EXCEPT !.last_time_block_requested = sb.last_time_block_requested]
        st2 == [st1 EXCEPT
                   !.sync_status = process_downloaded_parts(@, Hash, st.state_parts_mpsc),
                   !.state_parts_mpsc = <<>>]
    IN  IF tracking_shards = <<>>
        THEN { [st |-> st1,
                result |-> RunResult(StateSyncResult(sb.request_block, sb.have_block, TRUE),
                                     "none", -1)] }
        ELSE { [st |-> o.st,
                result |->
                    IF o.err \in {"assert run_me", "unwrap get_state_header"}
                    THEN RunResult("Panic", o.err, o.shard_id)
                    ELSE IF o.err # "none"
                    THEN RunResult("Err", o.err, o.shard_id)
                    ELSE RunResult(StateSyncResult(sb.request_block, sb.have_block,
                                                   o.all_done),
                                   "none", -1)] :
                 o \in ShardLoop(st2, tracking_shards, highest_height_peers, t, TRUE) }

\* run (state.rs:696-761) with sync_shards_status (state.rs:251-396): every pair
\* of the state it may leave and the value it returns
RunOutcomes(st, highest_height_peers, t) ==
    LET sb == sync_block_status(st.last_time_block_requested, block_exists, t)
        st1 == [st EXCEPT !.last_time_block_requested = sb.last_time_block_requested]
        st2 == [st1 EXCEPT
                   !.sync_status = process_downloaded_parts(@, Hash, st.state_parts_mpsc),
                   !.state_parts_mpsc = <<>>]
    IN  IF tracking_shards = <<>>
        THEN { [st |-> st1,
                result |-> RunResult(StateSyncResult(sb.request_block, sb.have_block, TRUE),
                                     "none", -1)] }
        ELSE IF layout_differs
        THEN { [st |-> st2, result |-> RunResult("Panic", "shard layout", -1)] }
        ELSE { [st |-> o.st,
                result |->
                    IF o.err \in {"assert run_me", "unwrap get_state_header"}
                    THEN RunResult("Panic", o.err, o.shard_id)
                    ELSE IF o.err # "none"
                    THEN RunResult("Err", o.err, o.shard_id)
                    ELSE RunResult(StateSyncResult(sb.request_block, sb.have_block,
                                                   o.all_done),
                                   "none", -1)] :
                 o \in ShardLoop(st2, tracking_shards, highest_height_peers, t, TRUE) }


(***************************************************************************)
(* Responses of peers.                                                     *)
(***************************************************************************)
\* received_requested_part that keeps the entry when its count gets to zero
received_requested_part_KeepEntry(st, part_id, shard_id, sync_hash) ==
    LET key == <<part_id, sync_hash>>
        ledger == st.last_part_id_requested
    IN  IF mode # "Peers" \/ key \notin DOMAIN st.requested_target THEN st
        ELSE LET entry == <<st.requested_target[key], shard_id>>
             IN  IF entry \notin DOMAIN ledger THEN st
                 ELSE IF ledger[entry].missing_parts = 0 THEN st
                 ELSE [st EXCEPT !.last_part_id_requested[entry].missing_parts = @ - 1]

\* received_requested_part (state.rs:479-505)
received_requested_part(st, part_id, shard_id, sync_hash) ==
    LET key == <<part_id, sync_hash>>
        ledger == st.last_part_id_requested
    IN  IF mode # "Peers" \/ key \notin DOMAIN st.requested_target THEN st
        ELSE LET entry == <<st.requested_target[key], shard_id>>
             IN  IF entry \notin DOMAIN ledger THEN st
                 ELSE IF ledger[entry].missing_parts <= 1
                 THEN [st EXCEPT !.last_part_id_requested = MapRemove(@, entry)]
                 ELSE [st EXCEPT !.last_part_id_requested[entry].missing_parts = @ - 1]

StatePartKey(sync_hash, shard_id, part_id) ==
    [sync_hash |-> sync_hash, shard_id |-> shard_id, part_id |-> part_id]

\* ShardStateSyncResponse is [header, part_id]: whether it carries a header, and
\* the id of the part it carries (NoPart if none)
NoPart == -1

\* the StateDownloadHeader arm that takes every header for persisted
ResponseHeader_AnyHeader(st, shard_id, response, persisted) ==
    IF st.sync_status[shard_id].downloads[1].done THEN st
    ELSE IF response.header
    THEN [st EXCEPT !.sync_status[shard_id].downloads[1].done = TRUE,
                    !.state_headers = @ \cup {shard_id}]
    ELSE [st EXCEPT !.sync_status[shard_id].downloads[1].error = TRUE]

\* the StateDownloadHeader arm (state.rs:776-797); persisted is the outcome of
\* chain.set_state_header
ResponseHeader(st, shard_id, response, persisted) ==
    IF st.sync_status[shard_id].downloads[1].done THEN st
    ELSE IF response.header /\ persisted
    THEN [st EXCEPT !.sync_status[shard_id].downloads[1].done = TRUE,
                    !.state_headers = @ \cup {shard_id}]
    ELSE [st EXCEPT !.sync_status[shard_id].downloads[1].error = TRUE]

\* the StateDownloadParts arm (state.rs:798-823); persisted is the outcome of
\* chain.set_state_part, which validates the part and stores it
ResponsePart(st, shard_id, hash, response, persisted) ==
    LET part_id == response.part_id
        num_parts == Len(st.sync_status[shard_id].downloads)
        key == StatePartKey(hash, shard_id, part_id)
    IN  IF part_id = NoPart THEN st
        ELSE IF part_id >= num_parts THEN st
        ELSE IF st.sync_status[shard_id].downloads[part_id + 1].done THEN st
        ELSE IF persisted
        THEN [st EXCEPT !.sync_status[shard_id].downloads[part_id + 1].done = TRUE,
                        !.state_parts = @ \cup {key},
                        !.validated = @ \cup {key}]
        ELSE [st EXCEPT !.sync_status[shard_id].downloads[part_id + 1].error = TRUE]

\* update_download_on_state_response_message (state.rs:763-826)
update_download_on_state_response_message(st, hash, shard_id, response, persisted) ==
    LET st1 == IF response.part_id # NoPart
               THEN received_requested_part(st, response.part_id, shard_id, hash)
               ELSE st
        status == st1.sync_status[shard_id].status
    IN  IF status = "StateDownloadHeader"
        THEN ResponseHeader(st1, shard_id, response, persisted)
        ELSE IF status = "StateDownloadParts"
        THEN ResponsePart(st1, shard_id, hash, response, persisted)
        ELSE st1

(***************************************************************************)
(* Actions.                                                                *)
(***************************************************************************)
Store(st) ==
    /\ sync_status' = st.sync_status
    /\ last_part_id_requested' = st.last_part_id_requested
    /\ requested_target' = st.requested_target
    /\ last_time_block_requested' = st.last_time_block_requested
    /\ state_parts_apply_results' = st.state_parts_apply_results
    /\ split_state_roots' = st.split_state_roots
    /\ state_parts_mpsc' = st.state_parts_mpsc
    /\ semaphore' = st.semaphore
    /\ tasks' = st.tasks
    /\ requests' = st.requests
    /\ asked' = st.asked
    /\ state_parts' = st.state_parts
    /\ state_headers' = st.state_headers
    /\ validated' = st.validated
    /\ rejected' = st.rejected
    /\ apply_scheduled' = st.apply_scheduled
    /\ split_scheduled' = st.split_scheduled

\* the process runs: a panic ends it
Alive == run_result.kind # "Panic"

CountsWithin(st) ==
    \A s \in Shards : \A i \in DOMAIN st.sync_status[s].downloads :
        st.sync_status[s].downloads[i].state_requests_count <= MaxRequestsCount

\* something other than a call of run happens
NotRun ==
    /\ run_result' = NoResult
    /\ calls' = 0
    /\ run_peers' = <<>>
    /\ issued' = issued

\* the times of the latest requests after a call of run at t that takes the
\* shard map from ss to ss1: the call has made a request for a DownloadStatus
\* if it has raised its state_requests_count
Stamp(ss, ss1, times, t) ==
    [s \in Shards |->
        [i \in DOMAIN ss1[s].downloads |->
            IF ss1[s].status = ss[s].status /\ i \in DOMAIN times[s]
            THEN IF ss1[s].downloads[i].state_requests_count
                      > ss[s].downloads[i].state_requests_count
                 THEN t ELSE times[s][i]
            ELSE IF ss1[s].downloads[i].state_requests_count > 0
                 THEN t ELSE NoTime]]

\* a call of run
Run ==
    /\ Alive
    /\ \E highest_height_peers \in peer_lists :
         \E o \in RunOutcomes(Current, highest_height_peers, now) :
            /\ CountsWithin(o.st)
            /\ Store(o.st)
            /\ run_result' = o.result
            /\ run_peers' = highest_height_peers
            /\ issued' = Stamp(sync_status, o.st.sync_status, issued, now)
    /\ calls' = IF calls < 2 THEN calls + 1 ELSE 2
    /\ UNCHANGED <<confvars, now, block_exists, smpvars>>

\* the clock advances
Tick ==
    /\ Alive
    /\ now < max_time
    /\ now' = now + 1
    /\ NotRun
    /\ UNCHANGED <<confvars, block_exists, syncvars, smpvars>>

\* the sync block arrives
BlockArrives ==
    /\ Alive
    /\ ~block_exists
    /\ block_exists' = TRUE
    /\ NotRun
    /\ UNCHANGED <<confvars, now, syncvars, smpvars>>

\* the future of send_async that does nothing on RouteNotFound
RouteNotFound_Ignored ==
    /\ Alive
    /\ \E r \in DOMAIN requests :
         /\ ~r.routed
         /\ Store([Current EXCEPT !.requests = BagRemove(@, r)])
    /\ NotRun
    /\ UNCHANGED <<confvars, now, block_exists, smpvars>>

\* the future of send_async resolves to RouteNotFound (state.rs:598-606 and
\* 1183-1193)
RouteNotFound ==
    /\ Alive
    /\ \E r \in DOMAIN requests :
         /\ ~r.routed
         /\ LET idx == IF r.kind = "header" THEN 1 ELSE r.part_id + 1
            IN  IF r.live
                THEN Store([Current EXCEPT
                              !.requests = BagRemove(@, r),
                              !.sync_status[r.shard_id].downloads[idx].run_me = TRUE])
                ELSE Store([Current EXCEPT !.requests = BagRemove(@, r)])
    /\ NotRun
    /\ UNCHANGED <<confvars, now, block_exists, smpvars>>

\* what a peer may send back: a header request is answered with or without a
\* header, a part request with some part (not always the one asked for) or none
Answers(r) ==
    IF r.kind = "header"
    THEN { [header |-> h, part_id |-> NoPart] : h \in BOOLEAN }
    ELSE { [header |-> FALSE, part_id |-> i] :
             i \in IF net_faults THEN {NoPart} \cup 0..MaxParts ELSE {r.part_id} }

\* the peer of a delivered request answers, and the client hands the response to
\* update_download_on_state_response_message
StateResponse ==
    /\ Alive
    /\ \E r \in DOMAIN requests, persisted \in BOOLEAN :
         /\ r.routed
         /\ sync_status[r.shard_id].status # "Absent"
         /\ \E response \in Answers(r) :
              \* nothing is persisted for a response that carries nothing
              /\ (~response.header /\ response.part_id = NoPart) => persisted
              /\ LET st1 == update_download_on_state_response_message(
                                Current, Hash, r.shard_id, response, persisted)
                 IN  Store([st1 EXCEPT !.requests = BagRemove(@, r)])
    /\ NotRun
    /\ UNCHANGED <<confvars, now, block_exists, smpvars>>

\* the spawned task of request_part_from_external_storage, up to the store commit
\* (state.rs:1117-1134): get_part, validate_state_part, store_update.commit()
TaskGet ==
    /\ Alive
    /\ \E task \in DOMAIN tasks,
          outcome \in {"get failed", "invalid", "commit failed", "stored"} :
         /\ task.pc = "get"
         /\ LET key == StatePartKey(task.sync_hash, task.shard_id, task.part_id)
                next == [task EXCEPT !.pc = "send",
                                     !.part_result = IF outcome = "stored"
                                                     THEN "Ok" ELSE "Err"]
            IN  Store([Current EXCEPT
                          !.tasks = BagAdd(BagRemove(@, task), next),
                          !.validated = IF outcome \in {"commit failed", "stored"}
                                        THEN @ \cup {key} ELSE @,
                          !.rejected = IF outcome = "invalid"
                                       THEN @ \cup {key} ELSE @,
                          !.state_parts = IF outcome = "stored"
                                          THEN @ \cup {key} ELSE @])
    /\ NotRun
    /\ UNCHANGED <<confvars, now, block_exists, smpvars>>

\* the end of a task that keeps its permit
TaskSend_KeepPermit ==
    /\ Alive
    /\ \E task \in DOMAIN tasks :
         /\ task.pc = "send"
         /\ Store([Current EXCEPT
                      !.tasks = BagRemove(@, task),
                      !.state_parts_mpsc =
                          Append(@, [sync_hash |-> task.sync_hash,
                                     shard_id |-> task.shard_id,
                                     part_id |-> task.part_id,
                                     part_result |-> task.part_result])])
    /\ NotRun
    /\ UNCHANGED <<confvars, now, block_exists, smpvars>>

\* the rest of the task (state.rs:1135-1146): the result is sent to the channel
\* and the permit is dropped
TaskSend ==
    /\ Alive
    /\ \E task \in DOMAIN tasks :
         /\ task.pc = "send"
         /\ Store([Current EXCEPT
                      !.tasks = BagRemove(@, task),
                      !.semaphore = @ + 1,
                      !.state_parts_mpsc =
                          Append(@, [sync_hash |-> task.sync_hash,
                                     shard_id |-> task.shard_id,
                                     part_id |-> task.part_id,
                                     part_result |-> task.part_result])])
    /\ NotRun
    /\ UNCHANGED <<confvars, now, block_exists, smpvars>>

\* set_apply_result (state.rs:438-444), called when a scheduled application ends
set_apply_result ==
    /\ Alive
    /\ \E shard_id \in Shards, apply_result \in {"Ok", "Err"} :
         /\ apply_scheduled[shard_id]
         /\ apply_result = "Err" => chain_faults
         /\ Store([Current EXCEPT
                      !.apply_scheduled[shard_id] = FALSE,
                      !.state_parts_apply_results[shard_id] = apply_result])
    /\ NotRun
    /\ UNCHANGED <<confvars, now, block_exists, smpvars>>

\* set_split_result (state.rs:447-453), called when a scheduled split ends
set_split_result ==
    /\ Alive
    /\ \E shard_id \in Shards, result \in {"Ok", "Err"} :
         /\ split_scheduled[shard_id]
         /\ result = "Err" => chain_faults
         /\ Store([Current EXCEPT
                      !.split_scheduled[shard_id] = FALSE,
                      !.split_state_roots[shard_id] = result])
    /\ NotRun
    /\ UNCHANGED <<confvars, now, block_exists, smpvars>>

\* The caller gives up the sync and starts the sync of a later sync_hash on the
\* same StateSync: run is given the new hash and a new, empty shard map.  What
\* peers answer to the requests of the earlier sync no longer reaches this map;
\* the fetch tasks, the channel, the permits, the ledger and the posted results
\* stay as they are.
NewSession ==
    /\ Alive
    /\ cur_sync_hash = Hashes[1]
    /\ cur_sync_hash' = Hashes[2]
    /\ block_exists' \in BOOLEAN
    /\ Store([Current EXCEPT !.sync_status = [s \in Shards |-> Absent],
                             !.requests = EmptyMap,
                             !.asked = {}])
    /\ NotRun
    /\ UNCHANGED <<statics, now, smpvars>>

(***************************************************************************)
(* The specification of the sync.                                          *)
(***************************************************************************)
\* The runs that are explored: the mode, the shards to sync, the number of parts
\* of each shard's state, and what the environment may do.
Scenario(m, shards, parts, split, differs, faults, block, net, lists, time) ==
    [mode |-> m, tracking_shards |-> shards, num_state_parts |-> parts,
     split_states |-> split, layout_differs |-> differs, chain_faults |-> faults,
     block_exists |-> block, net_faults |-> net, peer_lists |-> lists,
     max_time |-> time, sync_hash |-> Hashes[2]]

Parts(n0, n1) == [s \in Shards |-> IF s = 0 THEN n0 ELSE n1]

OnePeer == { <<"p1">> }
NoneOrOne == { <<>>, <<"p1">> }
OneOrTwo == { <<"p1">>, <<"p1", "p2">> }

\* the sync-block gate alone, and a changed shard layout
ScenGate ==
    { Scenario("Peers", <<>>, Parts(0, 0), FALSE, FALSE, FALSE, FALSE, FALSE, OnePeer,
               MaxTime),
      Scenario("Peers", <<0>>, Parts(0, 0), FALSE, TRUE, FALSE, FALSE, FALSE, OnePeer,
               MaxTime),
      Scenario("Peers", <<>>, Parts(0, 0), FALSE, TRUE, FALSE, FALSE, FALSE, OnePeer,
               MaxTime) }

\* one shard with at most one part, from the header to StateSyncDone, with every
\* failure of the chain and of the network
ScenPhases ==
    { Scenario("Peers", <<0>>, Parts(n, 0), split, FALSE, TRUE, FALSE, TRUE, NoneOrOne,
               MaxTime) : n \in 0..1, split \in BOOLEAN }

\* one shard with MAX_STATE_PART_REQUEST parts asked from one peer, for longer
\* than the timeout; and one shard with one part more, with no time passing
ScenParts ==
    { Scenario("Peers", <<0>>, Parts(MAX_STATE_PART_REQUEST, 0), FALSE, FALSE, FALSE,
               TRUE, FALSE, OnePeer, Timeout + 1),
      Scenario("Peers", <<0>>, Parts(MAX_STATE_PART_REQUEST + 1, 0), FALSE, FALSE, FALSE,
               TRUE, FALSE, OneOrTwo, 0) }

\* two shards whose parts are asked from the same peer
ScenShards ==
    { Scenario("Peers", <<0, 1>>, Parts(1, 2), FALSE, FALSE, FALSE, TRUE, TRUE, OnePeer,
               0) }

\* two shards and a chain whose operations fail
ScenFaults ==
    { Scenario("Peers", <<0, 1>>, Parts(0, 0), TRUE, FALSE, TRUE, TRUE, FALSE, OnePeer,
               0) }

\* two shards whose parts are asked from two peers
ScenTwoPeers ==
    { Scenario("Peers", <<0, 1>>, Parts(2, 1), FALSE, FALSE, FALSE, TRUE, FALSE,
               { <<"p1", "p2">> }, 0) }

\* parts from the external storage
ScenExternal ==
    { Scenario("External", <<0>>, Parts(2, 0), FALSE, FALSE, TRUE, TRUE, FALSE, NoneOrOne,
               MaxTime) }

\* a sync from the external storage that is given up for a sync with another
\* sync_hash while its fetch tasks run
ScenSession ==
    { [Scenario("External", <<0>>, Parts(1, 0), FALSE, FALSE, FALSE, TRUE, FALSE, OnePeer,
                0) EXCEPT !.sync_hash = Hashes[1]] }

\* one part asked from one of two peers, or from none, over two timeouts
ScenExpiry ==
    { Scenario("Peers", <<0>>, Parts(1, 0), FALSE, FALSE, FALSE, TRUE, FALSE,
               { <<>>, <<"p1">>, <<"p2">> }, 2 * Timeout + 1) }

\* two shards that fetch from the external storage more parts than there are
\* permits
ScenExternalShards ==
    { Scenario("External", <<0, 1>>, Parts(NumPermits, 1), FALSE, FALSE, FALSE, TRUE,
               FALSE, OnePeer, 0) }

Scenarios ==
    ScenGate \cup ScenPhases \cup ScenParts \cup ScenShards \cup ScenFaults
    \cup ScenExternal \cup ScenSession \cup ScenExpiry \cup ScenExternalShards
    \cup ScenTwoPeers

SamplerIdle ==
    /\ smp_in = [data |-> <<>>, limit |-> 0]
    /\ smp = SamplerNew(<<>>, 0)
    /\ smp_out = <<>>
    /\ smp_none = FALSE

\* StateSync::new (state.rs:157-215) and an empty map of the caller
InitSyncOf(scenarios) ==
    /\ \E c \in scenarios :
         /\ mode = c.mode
         /\ tracking_shards = c.tracking_shards
         /\ num_state_parts = c.num_state_parts
         /\ split_states = c.split_states
         /\ layout_differs = c.layout_differs
         /\ chain_faults = c.chain_faults
         /\ block_exists = c.block_exists
         /\ net_faults = c.net_faults
         /\ peer_lists = c.peer_lists
         /\ max_time = c.max_time
         /\ cur_sync_hash = c.sync_hash
    /\ now = 0
    /\ sync_status = [s \in Shards |-> Absent]
    /\ last_part_id_requested = EmptyMap
    /\ requested_target = EmptyMap
    /\ last_time_block_requested = NoTime
    /\ state_parts_apply_results = [s \in Shards |-> "None"]
    /\ split_state_roots = [s \in Shards |-> "None"]
    /\ state_parts_mpsc = <<>>
    /\ semaphore = IF mode = "External" THEN NumPermits ELSE 0
    /\ tasks = EmptyMap
    /\ requests = EmptyMap
    /\ asked = {}
    /\ state_parts = {}
    /\ state_headers = {}
    /\ validated = {}
    /\ rejected = {}
    /\ apply_scheduled = [s \in Shards |-> FALSE]
    /\ split_scheduled = [s \in Shards |-> FALSE]
    /\ run_result = NoResult
    /\ calls = 0
    /\ run_peers = <<>>
    /\ issued = [s \in Shards |-> <<>>]

InitSync == InitSyncOf(Scenarios)

Init ==
    /\ InitSync
    /\ SamplerIdle

Next ==
    \/ Run
    \/ Tick
    \/ BlockArrives
    \/ RouteNotFound
    \/ StateResponse
    \/ TaskGet
    \/ TaskSend
    \/ set_apply_result
    \/ set_split_result
    \/ NewSession

Spec == Init /\ [][Next]_vars

(***************************************************************************)
(* The specification of a sync in which everything that is asked for is    *)
(* given: run is called again and again, the clock advances, the sync      *)
(* block arrives, peers and the external storage answer every request with *)
(* valid data, and the applications and splits that are scheduled end with *)
(* success.  The clock stops before any timeout can elapse.                *)
(***************************************************************************)
\* one shard from the external storage, its parts no more than the permits, with
\* and without a peer known to a call; one shard from a peer, with a split
ScenLive ==
    { Scenario("External", <<0>>, Parts(NumPermits, 0), FALSE, FALSE, FALSE, FALSE,
               FALSE, NoneOrOne, Timeout),
      Scenario("Peers", <<0>>, Parts(1, 0), TRUE, FALSE, FALSE, FALSE, FALSE, OnePeer,
               Timeout) }

InitLive ==
    /\ InitSyncOf(ScenLive)
    /\ SamplerIdle

\* a peer answers with what it was asked for, and it is persisted
GoodResponse ==
    /\ StateResponse
    /\ state_headers' # state_headers \/ state_parts' # state_parts

\* a fetch from the external storage gets valid data and stores it
GoodTaskGet ==
    /\ TaskGet
    /\ state_parts' # state_parts

\* in external mode, once the headers are stored, the peers the caller knew of
\* are gone: highest_height_peers is empty from now on
PeersGone ==
    /\ Alive
    /\ mode = "External"
    /\ \A i \in DOMAIN tracking_shards : tracking_shards[i] \in state_headers
    /\ peer_lists # { <<>> }
    /\ peer_lists' = { <<>> }
    /\ NotRun
    /\ UNCHANGED <<mode, tracking_shards, num_state_parts, split_states, layout_differs,
                   chain_faults, net_faults, max_time, cur_sync_hash, now, block_exists,
                   syncvars, smpvars>>

NextLive ==
    \/ Run
    \/ Tick
    \/ BlockArrives
    \/ GoodResponse
    \/ GoodTaskGet
    \/ TaskSend
    \/ set_apply_result
    \/ set_split_result
    \/ PeersGone

Fairness ==
    /\ WF_vars(Run)
    /\ WF_vars(Tick)
    /\ WF_vars(BlockArrives)
    /\ WF_vars(GoodResponse)
    /\ WF_vars(GoodTaskGet)
    /\ WF_vars(TaskSend)
    /\ WF_vars(set_apply_result)
    /\ WF_vars(set_split_result)

SpecLive == InitLive /\ [][NextLive]_vars /\ Fairness


(***************************************************************************)
(* The specification of a SamplerLimited driven to its end: new(data,      *)
(* limit) for every data and limit within the bounds, then next() with     *)
(* every index thread_rng may draw.                                        *)
(***************************************************************************)
RECURSIVE SeqsUpTo(_, _)
SeqsUpTo(S, n) ==
    IF n = 0 THEN { <<>> }
    ELSE SeqsUpTo(S, n - 1)
         \cup { Append(q, x) : q \in { r \in SeqsUpTo(S, n - 1) : Len(r) = n - 1 }, x \in S }

\* the sync is idle while the sampler runs
SyncIdle ==
    /\ \E c \in ScenGate :
         /\ c.tracking_shards = <<>>
         /\ mode = c.mode
         /\ tracking_shards = c.tracking_shards
         /\ num_state_parts = c.num_state_parts
         /\ split_states = c.split_states
         /\ layout_differs = c.layout_differs
         /\ chain_faults = c.chain_faults
         /\ block_exists = c.block_exists
         /\ net_faults = c.net_faults
         /\ peer_lists = c.peer_lists
         /\ max_time = c.max_time
         /\ cur_sync_hash = c.sync_hash
    /\ now = 0
    /\ sync_status = [s \in Shards |-> Absent]
    /\ last_part_id_requested = EmptyMap
    /\ requested_target = EmptyMap
    /\ last_time_block_requested = NoTime
    /\ state_parts_apply_results = [s \in Shards |-> "None"]
    /\ split_state_roots = [s \in Shards |-> "None"]
    /\ state_parts_mpsc = <<>>
    /\ semaphore = 0
    /\ tasks = EmptyMap
    /\ requests = EmptyMap
    /\ asked = {}
    /\ state_parts = {}
    /\ state_headers = {}
    /\ validated = {}
    /\ rejected = {}
    /\ apply_scheduled = [s \in Shards |-> FALSE]
    /\ split_scheduled = [s \in Shards |-> FALSE]
    /\ run_result = NoResult
    /\ calls = 0
    /\ run_peers = <<>>
    /\ issued = [s \in Shards |-> <<>>]

InitSampler ==
    /\ SyncIdle
    /\ \E data \in SeqsUpTo(Peers, MaxData), limit \in 0..MaxLimit :
         /\ smp_in = [data |-> data, limit |-> limit]
         /\ smp = SamplerNew(data, limit)
    /\ smp_out = <<>>
    /\ smp_none = FALSE

\* next() returns Some(item)
SamplerNext ==
    /\ ~SamplerEmpty(smp)
    /\ \E ix \in 1..Len(smp.limit) :
         LET r == SamplerNextAt(smp, ix)
         IN  /\ smp' = r.next
             /\ smp_out' = Append(smp_out, r.item)
    /\ UNCHANGED <<confvars, now, block_exists, syncvars, run_result, calls, run_peers,
                   issued, smp_in, smp_none>>

\* next() returns None
SamplerNone ==
    /\ SamplerEmpty(smp)
    /\ ~smp_none
    /\ smp_none' = TRUE
    /\ UNCHANGED <<confvars, now, block_exists, syncvars, run_result, calls, run_peers,
                   issued, smp_in, smp, smp_out>>

NextSampler ==
    \/ SamplerNext
    \/ SamplerNone

SpecSampler == InitSampler /\ [][NextSampler]_vars

(***************************************************************************)
(* Properties.                                                             *)
(***************************************************************************)
InParts(shard_id) ==
    sync_status[shard_id].status = "StateDownloadParts"

InHeader(shard_id) ==
    sync_status[shard_id].status = "StateDownloadHeader"

\* a call of run has just returned
Returned == run_result.kind \notin {"None", "Panic"}

\* the part requests of a bag that went to peer for shard_id
PartRequests(reqs, peer, shard_id) ==
    BagSize([r \in {x \in DOMAIN reqs : /\ x.kind = "part"
                                        /\ x.peer = peer
                                        /\ x.shard_id = shard_id} |-> reqs[r]])

\* those of them that the peer got
DeliveredPartRequests(reqs, peer, shard_id) ==
    BagSize([r \in {x \in DOMAIN reqs : /\ x.kind = "part"
                                        /\ x.peer = peer
                                        /\ x.shard_id = shard_id
                                        /\ x.routed} |-> reqs[r]])

\* C1 as stated: in Peers mode the part requests that were sent to a peer for a
\* shard and are not yet answered are never more than MAX_STATE_PART_REQUEST.
C1_UnansweredWithinCap ==
    mode = "Peers" =>
        \A p \in Peers, s \in Shards :
            DeliveredPartRequests(requests, p, s) <= MAX_STATE_PART_REQUEST

\* C1 amended: one call of run sends a peer at most MAX_STATE_PART_REQUEST part
\* requests for a shard, and none while the ledger holds an entry of the peer
\* and the shard that has not expired.
C1_CapPerCall ==
    [][run_result' # NoResult =>
         \A p \in Peers, s \in Shards :
            LET sent == PartRequests(requests', p, s) - PartRequests(requests, p, s)
                key == <<p, s>>
                pending == /\ key \in DOMAIN last_part_id_requested
                           /\ ~expired(last_part_id_requested[key], now)
            IN  /\ sent <= MAX_STATE_PART_REQUEST
                /\ pending => sent = 0]_vars

\* a call has sent a peer MAX_STATE_PART_REQUEST part requests and left a part
\* of the shard for a later call
C1_CapReached ==
    /\ Returned
    /\ \E p \in Peers, s \in Shards :
         /\ InParts(s)
         /\ <<p, s>> \in DOMAIN last_part_id_requested
         /\ last_part_id_requested[<<p, s>>].missing_parts = MAX_STATE_PART_REQUEST
         /\ PartRequests(requests, p, s) = MAX_STATE_PART_REQUEST
         /\ \E i \in DOMAIN sync_status[s].downloads :
              /\ sync_status[s].downloads[i].run_me
              /\ sync_status[s].downloads[i].state_requests_count = 0

\* C2: every part of a shard in the parts phase that is marked done has its
\* entry in the StateParts column.
C2_DonePartIsStored ==
    \A s \in Shards :
        InParts(s) =>
            \A i \in DOMAIN sync_status[s].downloads :
                sync_status[s].downloads[i].done =>
                    StatePartKey(Hash, s, i - 1) \in state_parts

\* C3: a part that is marked done has had its data validated: by
\* validate_state_part and a store commit in a fetch task, or by set_state_part.
C3_DoneOnlyValidated ==
    \A s \in Shards :
        InParts(s) =>
            \A i \in DOMAIN sync_status[s].downloads :
                sync_status[s].downloads[i].done =>
                    StatePartKey(Hash, s, i - 1) \in validated

\* a part fetched from the external storage is marked done, another is not
C3_DoneFromChannel ==
    /\ mode = "External"
    /\ \E s \in Shards :
         /\ InParts(s)
         /\ \E i, j \in DOMAIN sync_status[s].downloads :
              /\ sync_status[s].downloads[i].done
              /\ ~sync_status[s].downloads[j].done

\* C4: no DownloadStatus, of a header or of a part, is both done and in error.
C4_NotDoneAndError ==
    \A s \in Shards :
        \A i \in DOMAIN sync_status[s].downloads :
            ~(sync_status[s].downloads[i].done /\ sync_status[s].downloads[i].error)

\* C5: a DownloadStatus with run_me set is not done.
C5_RunMeNotDone ==
    \A s \in Shards :
        \A i \in DOMAIN sync_status[s].downloads :
            sync_status[s].downloads[i].run_me => ~sync_status[s].downloads[i].done

Tracked == { tracking_shards[i] : i \in DOMAIN tracking_shards }

SecondCall == calls >= 1 /\ calls' = 2

Waiting(s) ==
    LET d == sync_status[s]
    IN  \/ d.status = "StateDownloadHeader" /\ ~d.downloads[1].done
        \/ d.status = "StateDownloadParts" /\ \E i \in DOMAIN d.downloads : ~d.downloads[i].done
        \/ d.status = "StateDownloadApplying" /\ state_parts_apply_results[s] = "None"
        \/ d.status = "StateSplitApplying" /\ split_state_roots[s] = "None"
        \/ d.status = "StateSyncDone"

Count(seq, v) == Cardinality({ i \in DOMAIN seq : seq[i] = v })

\* C9: a SamplerLimited made of data and limit yields Len(data) * limit items
\* and then None, and every element as many times as limit times its
\* occurrences in data, whatever indices are drawn.
C9_SamplerYields ==
    LET total == Len(smp_in.data) * smp_in.limit
    IN  /\ Len(smp_out) <= total
        /\ SamplerEmpty(smp) <=> Len(smp_out) = total
        /\ smp_none =>
              /\ Len(smp_out) = total
              /\ \A v \in Peers : Count(smp_out, v) = smp_in.limit * Count(smp_in.data, v)

\* a sampler of several elements, one of them twice, with a limit above one has
\* returned None
C9_Exhausted ==
    /\ smp_none
    /\ smp_in.limit >= 2
    /\ \E v, w \in Peers : /\ v # w
                           /\ Count(smp_in.data, v) >= 2
                           /\ Count(smp_in.data, w) >= 1

\* C10: the handling of a part response whose part_id is not below the number
\* of parts of a shard in the parts phase leaves the shard's DownloadStatus
\* entries, the stored parts, the ledger and the requested-target map as they are.
C10_OutOfRangeChangesNothing ==
    \A r \in DOMAIN requests, persisted \in BOOLEAN :
        (r.routed /\ InParts(r.shard_id)) =>
            \A response \in Answers(r) :
                response.part_id >= Len(sync_status[r.shard_id].downloads) =>
                    LET st1 == update_download_on_state_response_message(
                                   Current, Hash, r.shard_id, response, persisted)
                    IN  /\ st1.sync_status[r.shard_id] = sync_status[r.shard_id]
                        /\ st1.state_parts = state_parts
                        /\ st1.last_part_id_requested = last_part_id_requested
                        /\ st1.requested_target = requested_target

\* the step is a call of run that returned
RunReturns == run_result'.kind \notin {"None", "Panic"}

\* the channel holds messages and all are of another sync_hash than this sync's
OnlyStaleMessages ==
    /\ state_parts_mpsc # <<>>
    /\ \A k \in DOMAIN state_parts_mpsc : state_parts_mpsc[k].sync_hash # Hash

\* C11: a call of run that drains from the channel only results whose sync_hash
\* is not the one of the call marks no part done and none in error: a shard
\* with a part to download stays in the parts phase, and no DownloadStatus of it
\* gets done or error set.
C11_StaleResultDropped ==
    [][(RunReturns /\ OnlyStaleMessages) =>
         \A s \in Tracked :
            (InParts(s) /\ \E i \in DOMAIN sync_status[s].downloads :
                              ~sync_status[s].downloads[i].done) =>
                /\ sync_status'[s].status = "StateDownloadParts"
                /\ \A i \in DOMAIN sync_status[s].downloads :
                     /\ sync_status'[s].downloads[i].done = sync_status[s].downloads[i].done
                     /\ sync_status'[s].downloads[i].error => sync_status[s].downloads[i].error]_vars

\* a call of run has drained the Ok result of a task of the earlier sync, and
\* the part it names, which the shard still downloads, is not done
C11_StaleResultDrained ==
    /\ Returned
    /\ Hash = Hashes[2]
    /\ state_parts_mpsc = <<>>
    /\ StatePartKey(Hashes[1], 0, 0) \in state_parts
    /\ \A t \in DOMAIN tasks : t.sync_hash = Hash
    /\ InParts(0)
    /\ ~sync_status[0].downloads[1].done

\* C12: with no shard to sync, run returns Completed if the sync block is
\* present, else RequestBlock if a request of the block is due and InProgress
\* if not, and the shard map is as it was.
C12_EmptyTracking ==
    [][(run_result' # NoResult /\ tracking_shards = <<>>) =>
         LET due == \/ last_time_block_requested = NoTime
                    \/ now - last_time_block_requested >= Timeout
         IN  /\ sync_status' = sync_status
             /\ run_result'.kind = IF block_exists THEN "Completed"
                                   ELSE IF due THEN "RequestBlock" ELSE "InProgress"]_vars

\* with no shard to sync, run has asked for the sync block a second time
C12_BlockRequestedAgain ==
    /\ tracking_shards = <<>>
    /\ run_result.kind = "RequestBlock"
    /\ last_time_block_requested >= Timeout

\* the requests of a bag and the fetch tasks that ask for a part of shard_id
AsksForPart(st, shard_id) ==
    \/ \E r \in DOMAIN st.requests : r.kind = "part" /\ r.shard_id = shard_id
    \/ \E k \in DOMAIN st.tasks : k.shard_id = shard_id

\* a call of run has returned a StateSyncResult
RunSucceeds == run_result'.kind \notin {"None", "Panic", "Err"}

\* C13 as stated: a shard whose state has no part leaves StateDownloadHeader for
\* StateDownloadScheduling.
C13_DirectlyToScheduling ==
    [][\A s \in Tracked :
         (/\ num_state_parts[s] = 0
          /\ InHeader(s)
          /\ sync_status'[s].status \notin {"StateDownloadHeader", "Absent"})
         => sync_status'[s].status = "StateDownloadScheduling"]_vars

\* C13: a shard whose state has no part leaves StateDownloadHeader for
\* StateDownloadParts with no DownloadStatus, and the next call of run that
\* returns a StateSyncResult moves it to StateDownloadScheduling; no part of it
\* is asked for and no response has any part in this.
C13_NoPartsThroughParts ==
    [][\A s \in Tracked :
         num_state_parts[s] = 0 =>
           /\ (/\ InHeader(s)
               /\ sync_status'[s].status \notin {"StateDownloadHeader", "Absent"})
              => sync_status'[s] = Phase("StateDownloadParts")
           /\ (InParts(s) /\ RunSucceeds)
              => sync_status'[s].status = "StateDownloadScheduling"
           /\ ~AsksForPart(Current, s) => ~AsksForPart([requests |-> requests',
                                                        tasks |-> tasks'], s)]_vars

\* a shard with no part has gone from StateDownloadParts to
\* StateDownloadScheduling in the call of run that has just returned
C13_NoPartsScheduled ==
    \E s \in Tracked :
        /\ num_state_parts[s] = 0
        /\ sync_status[s].status = "StateDownloadScheduling"
        /\ Returned
        /\ ~AsksForPart(Current, s)

\* the place of a shard in tracking_shards
Place(shard_id) ==
    CHOOSE i \in DOMAIN tracking_shards : tracking_shards[i] = shard_id

\* the call of run of this step has gone through the loop at least up to shard_id
Reaches(shard_id) ==
    /\ run_result' # NoResult
    /\ run_result'.op # "shard layout"
    /\ run_result'.kind \in {"Err", "Panic"}
       => Place(run_result'.shard_id) >= Place(shard_id)

\* the StateRequestHeader of a bag that went to peer for shard_id
HeaderRequests(reqs, peer, shard_id) ==
    BagSize([r \in {x \in DOMAIN reqs : /\ x.kind = "header"
                                        /\ x.peer = peer
                                        /\ x.shard_id = shard_id} |-> reqs[r]])

\* the peers that select_peers offers for shard_id to the call of this step
Candidates(shard_id) ==
    LET targets == select_peers(Current, run_peers', shard_id, now).targets
    IN  { targets[i] : i \in DOMAIN targets }

\* C14: the call of run that finds no record of a tracked shard, and a candidate
\* peer for it, creates the record in StateDownloadHeader with one
\* DownloadStatus and sends exactly one StateRequestHeader, to a candidate P;
\* the DownloadStatus then has run_me, done and error unset,
\* state_requests_count 1 and last_target P.
C14_FirstCallAsksForHeader ==
    [][\A s \in Tracked :
         (/\ Reaches(s)
          /\ sync_status[s] = Absent
          /\ Candidates(s) # {})
         => \E P \in Candidates(s) :
              /\ sync_status'[s] =
                   [status |-> "StateDownloadHeader",
                    downloads |-> << [run_me |-> FALSE, done |-> FALSE,
                                      error |-> FALSE, state_requests_count |-> 1,
                                      last_target |-> P, prev_update_time |-> now] >>]
              /\ \A q \in Peers :
                   HeaderRequests(requests', q, s) =
                     HeaderRequests(requests, q, s) + IF q = P THEN 1 ELSE 0]_vars

\* the first call of run has asked one of two candidates for the header
C14_HeaderAsked ==
    /\ calls = 1
    /\ Returned
    /\ Len(run_peers) = 2
    /\ \E s \in Tracked :
         /\ InHeader(s)
         /\ sync_status[s].downloads[1].state_requests_count = 1
         /\ \E P \in Peers : /\ sync_status[s].downloads[1].last_target = P
                             /\ HeaderRequests(requests, P, s) = 1

\* C15: for a shard in StateDownloadHeader whose header is not done,
\* update_download_on_state_response_message sets done on a response with a
\* header that is persisted and error on a response without header or when
\* persisting fails, and changes nothing else of the shard; the shard stays in
\* StateDownloadHeader until a call of run.
C15_HeaderResponse ==
    /\ [](\A s \in Tracked :
            (InHeader(s) /\ ~sync_status[s].downloads[1].done) =>
              \A header \in BOOLEAN, persisted \in BOOLEAN :
                LET response == [header |-> header, part_id |-> NoPart]
                    st1 == update_download_on_state_response_message(
                               Current, Hash, s, response, persisted)
                IN  st1.sync_status[s] =
                      IF header /\ persisted
                      THEN [sync_status[s] EXCEPT !.downloads[1].done = TRUE]
                      ELSE [sync_status[s] EXCEPT !.downloads[1].error = TRUE])
    /\ [][\A s \in Tracked :
            (InHeader(s) /\ run_result' = NoResult /\ cur_sync_hash' = cur_sync_hash)
            => sync_status'[s].status = "StateDownloadHeader"]_vars

\* a response with a header was handled and no call of run has followed
C15_HeaderDone ==
    \E s \in Tracked :
        /\ InHeader(s)
        /\ sync_status[s].downloads[1].done
        /\ ~sync_status[s].downloads[1].error
        /\ s \in state_headers
        /\ run_result = NoResult

\* the call of run of this step has gone through the iteration of shard_id
\* without an error or a panic in it
Passes(shard_id) ==
    /\ Reaches(shard_id)
    /\ ~(run_result'.kind \in {"Err", "Panic"} /\ run_result'.shard_id = shard_id)

\* the call of run of this step finds the header of shard_id done
HeaderArrived(shard_id) ==
    /\ InHeader(shard_id)
    /\ sync_status[shard_id].downloads[1].done
    /\ Passes(shard_id)

\* C16 as stated: the call of run that finds the header done moves the shard to
\* StateDownloadParts with num_parts entries, all with run_me set after the call.
C16_AllRunMeAfterCall ==
    [][\A s \in Tracked :
         HeaderArrived(s) =>
           /\ sync_status'[s].status = "StateDownloadParts"
           /\ Len(sync_status'[s].downloads) = num_state_parts[s]
           /\ \A i \in DOMAIN sync_status'[s].downloads :
                sync_status'[s].downloads[i].run_me]_vars

\* C16: the call of run that finds the header done, and in which neither
\* get_state_header nor the dispatch fails, moves the shard to StateDownloadParts
\* with num_parts entries created with run_me set, and goes on to request parts
\* in the same call: after the call an entry is either as created or was
\* requested once, run_me is unset for the requested ones unless no permit was
\* free, and with a candidate peer in Peers mode some part is requested.
C16_PartsCreatedAndRequested ==
    [][\A s \in Tracked :
         HeaderArrived(s) =>
           LET downloads == sync_status'[s].downloads
           IN  /\ sync_status'[s].status = "StateDownloadParts"
               /\ Len(downloads) = num_state_parts[s]
               /\ \A i \in DOMAIN downloads :
                    \/ downloads[i] = DownloadStatusNew(now)
                    \/ /\ Candidates(s) # {}
                       /\ downloads[i].state_requests_count = 1
                       /\ downloads[i] =
                            [DownloadStatusNew(now) EXCEPT
                               !.run_me = downloads[i].run_me,
                               !.state_requests_count = 1,
                               !.last_target = downloads[i].last_target]
                       /\ downloads[i].run_me => (mode = "External" /\ semaphore' = 0)
               /\ (mode = "Peers" /\ Candidates(s) # {} /\ num_state_parts[s] > 0)
                  => \E i \in DOMAIN downloads : ~downloads[i].run_me]_vars

\* the call that created the parts has requested some of them and not the others
C16_SomeRequestedAtCreation ==
    \E s \in Tracked :
        /\ InParts(s)
        /\ Returned
        /\ \A i \in DOMAIN sync_status[s].downloads :
             sync_status[s].downloads[i].prev_update_time = now
        /\ \E i, j \in DOMAIN sync_status[s].downloads :
             /\ ~sync_status[s].downloads[i].run_me
             /\ sync_status[s].downloads[i].state_requests_count = 1
             /\ sync_status[s].downloads[j] = DownloadStatusNew(now)

Min(a, b) == IF a < b THEN a ELSE b

\* the parts of a list of DownloadStatus that have run_me set
RunMeParts(downloads) ==
    { i \in DOMAIN downloads : downloads[i].run_me }

\* the parts of shard_id with run_me set once the call of run of this step has
\* taken its retry decisions, which is when the dispatcher reads them
RunMeAtDispatch(shard_id) ==
    LET downloads == process_downloaded_parts(sync_status, Hash,
                                              state_parts_mpsc)[shard_id].downloads
    IN  RunMeParts([i \in DOMAIN downloads |-> PartRetry(downloads[i], now)])

\* the part requests for shard_id that the step sends to peer
PartRequestsSent(peer, shard_id) ==
    PartRequests(requests', peer, shard_id) - PartRequests(requests, peer, shard_id)

RECURSIVE SumOver(_, _)
SumOver(S, f) ==
    IF S = {} THEN 0
    ELSE LET x == CHOOSE y \in S : TRUE IN f[x] + SumOver(S \ {x}, f)

\* C17: in Peers mode a call of run that goes through a shard in the parts phase
\* with N parts having run_me set when the dispatcher reads them and a set C of
\* candidate peers sends exactly min(N, MAX_STATE_PART_REQUEST * |C|) part
\* requests, at most MAX_STATE_PART_REQUEST to each peer of C and none to another
\* peer, and the other N - min(..) parts keep run_me set.
C17_MinPartsPerCall ==
    [][\A s \in Tracked :
         (mode = "Peers" /\ InParts(s) /\ Passes(s)) =>
           LET N == Cardinality(RunMeAtDispatch(s))
               C == Candidates(s)
               sent == [q \in Peers |-> PartRequestsSent(q, s)]
               M == Min(N, MAX_STATE_PART_REQUEST * Cardinality(C))
           IN  /\ SumOver(Peers, sent) = M
               /\ \A q \in Peers :
                    sent[q] <= IF q \in C THEN MAX_STATE_PART_REQUEST ELSE 0
               /\ Cardinality(RunMeParts(sync_status'[s].downloads)) = N - M]_vars

\* the same, for a shard none of whose done parts has run_me set
C17_MinPartsPerCallNoneDone ==
    [][\A s \in Tracked :
         (/\ mode = "Peers" /\ InParts(s) /\ Passes(s)
          /\ \A i \in DOMAIN sync_status[s].downloads :
               ~(sync_status[s].downloads[i].done /\ sync_status[s].downloads[i].run_me))
         =>
           LET N == Cardinality(RunMeAtDispatch(s))
               C == Candidates(s)
               sent == [q \in Peers |-> PartRequestsSent(q, s)]
               M == Min(N, MAX_STATE_PART_REQUEST * Cardinality(C))
           IN  /\ SumOver(Peers, sent) = M
               /\ \A q \in Peers :
                    sent[q] <= IF q \in C THEN MAX_STATE_PART_REQUEST ELSE 0
               /\ Cardinality(RunMeParts(sync_status'[s].downloads)) = N - M]_vars

\* the ledger entry of (peer, shard_id) is there and its wait_until has passed
EntryExpired(peer, shard_id) ==
    /\ <<peer, shard_id>> \in DOMAIN last_part_id_requested
    /\ expired(last_part_id_requested[<<peer, shard_id>>], now)

\* the ledger entry of (peer, shard_id) that the step found is gone: removed, or
\* removed and made again by a request of this call
EntrySwept(peer, shard_id) ==
    \/ <<peer, shard_id>> \notin DOMAIN last_part_id_requested'
    \/ last_part_id_requested'[<<peer, shard_id>>].wait_until = now + Timeout

\* the part requests of shard_id that wait for the answer of a peer
Unanswered(shard_id) ==
    { r \in DOMAIN requests : r.kind = "part" /\ r.shard_id = shard_id /\ r.routed }

TasksSpawned == BagSize(tasks') - BagSize(tasks)

\* C19: in external mode a call of run that goes through the first shard, in the
\* parts phase, with S permits free and N parts having run_me set when the
\* dispatcher reads them spawns exactly min(S, N) fetch tasks, and the other
\* N - min(S, N) parts have run_me set after the call.
C19_MinTasksPerCall ==
    [][\A s \in Tracked :
         (mode = "External" /\ InParts(s) /\ Place(s) = 1 /\ Passes(s)) =>
           LET N == Cardinality(RunMeAtDispatch(s))
               M == Min(semaphore, N)
           IN  /\ TasksSpawned = M
               /\ semaphore' = semaphore - M
               /\ Cardinality(RunMeParts(sync_status'[s].downloads)) = N - M]_vars

\* the same, for a call that is given a peer and a shard none of whose done
\* parts has run_me set when the dispatcher reads the parts
C19_MinTasksPerCallWithPeer ==
    [][\A s \in Tracked :
         (/\ mode = "External" /\ InParts(s) /\ Place(s) = 1 /\ Passes(s)
          /\ run_peers' # <<>>
          /\ LET downloads == process_downloaded_parts(sync_status, Hash,
                                                       state_parts_mpsc)[s].downloads
             IN  \A i \in DOMAIN downloads : ~(downloads[i].done /\ downloads[i].run_me))
         =>
           LET N == Cardinality(RunMeAtDispatch(s))
               M == Min(semaphore, N)
           IN  /\ TasksSpawned = M
               /\ semaphore' = semaphore - M
               /\ Cardinality(RunMeParts(sync_status'[s].downloads)) = N - M]_vars

\* the part of shard_id with DownloadStatus index i, as a key of the store
KeyOf(shard_id, i) == StatePartKey(Hash, shard_id, i - 1)

\* the part's DownloadStatus once the call of run of this step has drained the
\* channel
Ingested(shard_id, i) ==
    process_downloaded_parts(sync_status, Hash, state_parts_mpsc)[shard_id].downloads[i]

\* the channel holds the result of a fetch of the part whose data failed
\* validate_state_part, the last result of the part that it holds
RejectionPosted(shard_id, i) ==
    /\ KeyOf(shard_id, i) \in rejected
    /\ KeyOf(shard_id, i) \notin validated
    /\ \E k \in DOMAIN state_parts_mpsc :
         /\ state_parts_mpsc[k] = [sync_hash |-> Hash, shard_id |-> shard_id,
                                   part_id |-> i - 1, part_result |-> "Err"]
         /\ \A j \in DOMAIN state_parts_mpsc :
              (state_parts_mpsc[j].shard_id = shard_id
               /\ state_parts_mpsc[j].part_id = i - 1) => j <= k

\* the step ends a fetch whose data fails validate_state_part
Rejects(task) ==
    /\ task \in DOMAIN tasks
    /\ task.pc = "get"
    /\ tasks' = BagAdd(BagRemove(tasks, task),
                       [task EXCEPT !.pc = "send", !.part_result = "Err"])
    /\ rejected' # rejected

StatusOf(shard_id) == sync_status[shard_id].status

\* C21: a call of run that goes through a shard in StateDownloadComplete moves
\* it to StateSplitScheduling if split_states, and to StateSyncDone if not; a
\* shard leaves StateSplitScheduling only for StateSplitApplying, with the split
\* scheduled; and with split_states a shard gets to StateSyncDone only from
\* StateSplitApplying, when set_split_result has posted a successful result.
C21_SplitAfterComplete ==
    [][\A s \in Tracked :
         /\ (StatusOf(s) = "StateDownloadComplete" /\ Passes(s))
            => StatusOf(s)' = IF split_states THEN "StateSplitScheduling"
                              ELSE "StateSyncDone"
         /\ (StatusOf(s) = "StateSplitScheduling"
             /\ StatusOf(s)' \notin {"StateSplitScheduling", "Absent"})
            => /\ StatusOf(s)' = "StateSplitApplying"
               /\ split_scheduled'[s]
         /\ (StatusOf(s) # "StateSyncDone" /\ StatusOf(s)' = "StateSyncDone")
            => IF split_states
               THEN /\ StatusOf(s) = "StateSplitApplying"
                    /\ split_state_roots[s] = "Ok"
                    /\ split_state_roots'[s] = "None"
               ELSE StatusOf(s) = "StateDownloadComplete"]_vars

\* with split_states, a shard is in StateSyncDone after the split
C21_DoneAfterSplit ==
    /\ split_states
    /\ Returned
    /\ \E s \in Tracked : /\ StatusOf(s) = "StateSyncDone"
                          /\ ~split_scheduled[s]
                          /\ split_state_roots[s] = "None"

\* a request of the sync block is due
BlockRequestDue ==
    \/ last_time_block_requested = NoTime
    \/ now - last_time_block_requested >= Timeout

\* C22: a call of run that returns, with the sync block absent, returns
\* RequestBlock and records the time exactly when no request time is recorded or
\* the recorded one is at least timeout old, and otherwise keeps the recorded
\* time; with the block present it clears the time and does not return
\* RequestBlock.
C22_BlockRequestedWhenDue ==
    [][RunReturns =>
         IF block_exists
         THEN /\ last_time_block_requested' = NoTime
              /\ run_result'.kind # "RequestBlock"
         ELSE /\ BlockRequestDue <=> run_result'.kind = "RequestBlock"
              /\ last_time_block_requested' =
                   IF run_result'.kind = "RequestBlock" THEN now
                   ELSE last_time_block_requested]_vars

\* the same, for the calls of run that return a StateSyncResult
C22_BlockRequestedWhenDueNoError ==
    [][RunSucceeds =>
         IF block_exists
         THEN /\ last_time_block_requested' = NoTime
              /\ run_result'.kind # "RequestBlock"
         ELSE /\ BlockRequestDue <=> run_result'.kind = "RequestBlock"
              /\ last_time_block_requested' =
                   IF run_result'.kind = "RequestBlock" THEN now
                   ELSE last_time_block_requested]_vars

\* the step leaves the shard records, the requests and the fetch tasks alone
NothingIssued ==
    /\ sync_status' = sync_status
    /\ requests' = requests
    /\ tasks' = tasks

\* C23 as stated: every call of run with a shard layout that differs panics,
\* and neither touches a shard record nor issues a request.
C23_PanicOnEveryEntry ==
    [][(run_result' # NoResult /\ layout_differs) =>
         /\ run_result'.kind = "Panic"
         /\ NothingIssued]_vars

\* C23: a call of run with shards to sync and a shard layout that differs
\* panics, and neither touches a shard record nor issues a request; with no
\* shard to sync the layouts are not compared and the call returns a
\* StateSyncResult.
C23_PanicWithShards ==
    [][(run_result' # NoResult /\ layout_differs) =>
         /\ run_result' = IF tracking_shards # <<>>
                          THEN RunResult("Panic", "shard layout", -1)
                          ELSE RunResult(IF block_exists THEN "Completed"
                                         ELSE IF BlockRequestDue THEN "RequestBlock"
                                         ELSE "InProgress", "none", -1)
         /\ NothingIssued]_vars

\* the call of run has panicked on the shard layout
C23_Panicked ==
    /\ layout_differs
    /\ tracking_shards # <<>>
    /\ run_result = RunResult("Panic", "shard layout", -1)
    /\ \A s \in Shards : sync_status[s] = Absent
    /\ requests = EmptyMap

\* the parts of shard_id that the store holds for the sync in progress
PersistedParts(parts, shard_id) ==
    { k \in parts : k.sync_hash = Hash /\ k.shard_id = shard_id }

\* the step takes shard_id from the scheduling or the applying phase back to
\* StateDownloadHeader
Restarts(shard_id) ==
    /\ StatusOf(shard_id) \in {"StateDownloadScheduling", "StateDownloadApplying"}
    /\ StatusOf(shard_id)' = "StateDownloadHeader"

\* the call of run of this step ends with the error of an operation on shard_id
FailsAt(shard_id) ==
    /\ run_result'.kind = "Err"
    /\ run_result'.shard_id = shard_id

\* C24 as stated: a shard taken back from the scheduling or the applying phase
\* has one fresh DownloadStatus and none of its parts is persisted any more; a
\* failed application takes the shard back; nothing else takes a shard back to
\* StateDownloadHeader or removes persisted parts.
C24_RestartWipesParts ==
    [][\A s \in Tracked :
         /\ Restarts(s) => /\ sync_status'[s] = new_download_state_header(now)
                           /\ PersistedParts(state_parts', s) = {}
         /\ (/\ StatusOf(s) = "StateDownloadApplying" /\ Reaches(s)
             /\ state_parts_apply_results[s] = "Err") => Restarts(s)
         /\ (StatusOf(s) # "StateDownloadHeader"
             /\ StatusOf(s)' = "StateDownloadHeader")
            => (StatusOf(s) = "Absent" \/ Restarts(s)) /\ run_result' # NoResult
         /\ PersistedParts(state_parts', s) # PersistedParts(state_parts, s)
            => \/ Restarts(s)
               \/ PersistedParts(state_parts, s) \subseteq
                    PersistedParts(state_parts', s)]_vars

\* C24: the same, but the parts are removed only if neither get_state_header nor
\* clear_downloaded_parts fails in the restart: if one does, the call of run
\* returns its error with the record reset and the persisted parts as they were.
C24_RestartWipesPartsUnlessWipeFails ==
    [][\A s \in Tracked :
         /\ Restarts(s) =>
              /\ sync_status'[s] = new_download_state_header(now)
              /\ IF FailsAt(s)
                 THEN /\ run_result'.op \in {"get_state_header", "clear_downloaded_parts"}
                      /\ state_parts' = state_parts
                 ELSE PersistedParts(state_parts', s) = {}
         /\ (/\ StatusOf(s) = "StateDownloadApplying" /\ Reaches(s)
             /\ state_parts_apply_results[s] = "Err") => Restarts(s)
         /\ (StatusOf(s) # "StateDownloadHeader"
             /\ StatusOf(s)' = "StateDownloadHeader")
            => (StatusOf(s) = "Absent" \/ Restarts(s)) /\ run_result' # NoResult
         /\ PersistedParts(state_parts', s) # PersistedParts(state_parts, s)
            => \/ Restarts(s)
               \/ PersistedParts(state_parts, s) \subseteq
                    PersistedParts(state_parts', s)]_vars

\* a shard whose part was persisted is back in StateDownloadHeader, its record
\* fresh and its parts removed
C24_Restarted ==
    /\ mode = "Peers"
    /\ Returned
    /\ \E s \in Tracked :
         /\ sync_status[s] = new_download_state_header(now)
         /\ s \in state_headers
         /\ KeyOf(s, 1) \in validated
         /\ PersistedParts(state_parts, s) = {}

\* C25: in external mode the fetch tasks in flight, over all shards, and the
\* free permits add up to the number of permits the semaphore was made with: a
\* task holds one permit from its spawn to its end, whatever its result.
C25_PermitsConserved ==
    mode = "External" =>
        /\ semaphore \in 0..NumPermits
        /\ BagSize(tasks) + semaphore = NumPermits

\* the fetches of two shards have held every permit, a fetch that failed
\* validation has ended, and its permit is free again
C25_PermitsBack ==
    /\ mode = "External"
    /\ semaphore = 1
    /\ BagSize(tasks) = NumPermits - 1
    /\ \E s \in Tracked : \E i \in DOMAIN sync_status[s].downloads :
         /\ KeyOf(s, i) \in rejected
         /\ \E k \in DOMAIN state_parts_mpsc :
              /\ state_parts_mpsc[k].shard_id = s
              /\ state_parts_mpsc[k].part_id = i - 1
              /\ state_parts_mpsc[k].part_result = "Err"
         /\ \E task \in DOMAIN tasks : task.shard_id # s

\* the step is the answer to the request r: RouteNotFound from the peer manager
\* if r was not routed, the response of the peer if it was
AnswerTo(r) ==
    /\ r \in DOMAIN requests
    /\ requests' = BagRemove(requests, r)
    /\ run_result' = NoResult
    /\ cur_sync_hash' = cur_sync_hash

\* the DownloadStatus index of the artifact that r asks for
ArtifactOf(r) == IF r.kind = "header" THEN 1 ELSE r.part_id + 1

\* the shard of r is in the phase of r and has the artifact of r
HasArtifact(status, r) ==
    /\ status[r.shard_id].status = IF r.kind = "header" THEN "StateDownloadHeader"
                                   ELSE "StateDownloadParts"
    /\ ArtifactOf(r) \in DOMAIN status[r.shard_id].downloads

\* the run_me flags of all DownloadStatus
RunMeFlags(status) ==
    [s \in Shards |-> [i \in DOMAIN status[s].downloads |->
                         status[s].downloads[i].run_me]]

\* C26 as stated: after RouteNotFound for a request, the artifact it asked for
\* has run_me set.
C26_RouteNotFoundSetsRunMe ==
    [][\A r \in DOMAIN requests :
         (AnswerTo(r) /\ ~r.routed /\ HasArtifact(sync_status', r))
         => sync_status'[r.shard_id].downloads[ArtifactOf(r)].run_me]_vars

\* C26: RouteNotFound for a request sets run_me of the DownloadStatus the
\* request was sent for and changes nothing else; if the shard's record was
\* replaced since the request was sent, that DownloadStatus is gone and the
\* shard's record stays as it is.  Any other answer leaves every run_me as it
\* was.  A call of run that goes through a shard with a candidate peer requests
\* again a header that is not done and has run_me set, and a part that is not
\* done and has run_me set unless every candidate has got
\* MAX_STATE_PART_REQUEST requests.
C26_RouteNotFoundSetsLiveRunMe ==
    /\ [][\A r \in DOMAIN requests :
            AnswerTo(r) =>
              IF r.routed
              THEN RunMeFlags(sync_status') = RunMeFlags(sync_status)
              ELSE sync_status' =
                     IF r.live
                     THEN [sync_status EXCEPT
                             ![r.shard_id].downloads[ArtifactOf(r)].run_me = TRUE]
                     ELSE sync_status]_vars
    /\ [](\A r \in DOMAIN requests : r.live => ~r.routed /\ HasArtifact(sync_status, r))
    /\ [][\A s \in Tracked : \A i \in DOMAIN sync_status[s].downloads :
            (/\ mode = "Peers" /\ Passes(s)
             /\ InHeader(s) \/ InParts(s)
             /\ sync_status[s].downloads[i].run_me
             /\ ~sync_status[s].downloads[i].done
             /\ Candidates(s) # {})
            => \/ /\ StatusOf(s)' = StatusOf(s)
                  /\ sync_status'[s].downloads[i].state_requests_count =
                       sync_status[s].downloads[i].state_requests_count + 1
                  /\ ~sync_status'[s].downloads[i].run_me
               \/ /\ InParts(s) /\ InParts(s)'
                  /\ sync_status'[s].downloads[i].run_me
                  /\ SumOver(Peers, [q \in Peers |-> PartRequestsSent(q, s)])
                       = MAX_STATE_PART_REQUEST * Cardinality(Candidates(s))]_vars

\* RouteNotFound has set run_me of a part whose request is gone while the ledger
\* still counts it
C26_PartRearmedByRouteNotFound ==
    /\ mode = "Peers"
    /\ run_result = NoResult
    /\ \E s \in Tracked : \E i \in DOMAIN sync_status[s].downloads :
         LET d == sync_status[s].downloads[i]
         IN  /\ InParts(s)
             /\ d.run_me /\ ~d.done /\ ~d.error
             /\ d.state_requests_count = 1
             /\ d.prev_update_time = now
             /\ d.last_target # NoPeer
             /\ <<d.last_target, s>> \in DOMAIN last_part_id_requested
             /\ \A r \in DOMAIN requests : ~(r.shard_id = s /\ r.kind = "part"
                                             /\ r.part_id = i - 1)

\* C27: in Peers mode the handling of a response with a part of a shard in the
\* parts phase that is in range and not done, and that set_state_part rejects,
\* leaves the ledger as it is.
C27_RejectedPartNotRewarded ==
    \A r \in DOMAIN requests :
        (mode = "Peers" /\ r.routed /\ r.kind = "part" /\ InParts(r.shard_id)) =>
            \A response \in Answers(r) :
                (/\ response.part_id # NoPart
                 /\ response.part_id < Len(sync_status[r.shard_id].downloads)
                 /\ ~sync_status[r.shard_id].downloads[response.part_id + 1].done)
                => LET st1 == update_download_on_state_response_message(
                                  Current, Hash, r.shard_id, response, FALSE)
                   IN  /\ st1.sync_status[r.shard_id].downloads[response.part_id + 1].error
                       /\ st1.last_part_id_requested = last_part_id_requested

\* C28: the downloads of a shard's record hold one DownloadStatus while the
\* shard is in StateDownloadHeader, num_parts of them while it is in
\* StateDownloadParts, and none in every other status.
C28_DownloadsLength ==
    \A s \in Shards :
        Len(sync_status[s].downloads) =
            CASE StatusOf(s) = "StateDownloadHeader" -> 1
              [] StatusOf(s) = "StateDownloadParts" -> num_state_parts[s]
              [] OTHER -> 0

\* one shard holds its parts, the other is past them after a call of run
C28_PartsAndLater ==
    /\ \E s \in Shards : InParts(s) /\ Len(sync_status[s].downloads) > 1
    /\ \E s \in Shards :
           /\ StatusOf(s) \in {"StateDownloadScheduling", "StateDownloadApplying",
                               "StateDownloadComplete"}
           /\ num_state_parts[s] > 0
           /\ sync_status[s].downloads = <<>>
    /\ calls > 0

\* the edges a call of run may take a shard's status along
Edges ==
    { <<"Absent", "StateDownloadHeader">>,
      <<"StateDownloadHeader", "StateDownloadParts">>,
      <<"StateDownloadParts", "StateDownloadScheduling">>,
      <<"StateDownloadScheduling", "StateDownloadApplying">>,
      <<"StateDownloadScheduling", "StateDownloadHeader">>,
      <<"StateDownloadApplying", "StateDownloadComplete">>,
      <<"StateDownloadApplying", "StateDownloadHeader">>,
      <<"StateDownloadComplete", "StateSplitScheduling">>,
      <<"StateDownloadComplete", "StateSyncDone">>,
      <<"StateSplitScheduling", "StateSplitApplying">>,
      <<"StateSplitApplying", "StateSyncDone">> }

\* C29: within one sync, the status of a shard changes only in a call of run,
\* and then along one of the edges; a shard in StateSyncDone stays there, and
\* neither the handling of a response nor the posting of a result changes a
\* status.
C29_OneEdgePerCall ==
    [][cur_sync_hash' = cur_sync_hash =>
         \A s \in Shards :
             /\ StatusOf(s)' # StatusOf(s)
                => /\ run_result' # NoResult
                   /\ s \in Tracked
                   /\ <<StatusOf(s), StatusOf(s)'>> \in Edges
             /\ StatusOf(s) = "StateSyncDone" => StatusOf(s)' = "StateSyncDone"]_vars

\* after a call of run one shard is done and the other one, whose parts were
\* applied with an error, is back at its header
C29_DoneAndRestarted ==
    /\ Returned
    /\ \E s \in Tracked : StatusOf(s) = "StateSyncDone"
    /\ \E s \in Tracked : /\ StatusOf(s) = "StateDownloadHeader"
                          /\ s \in state_headers

\* the call of run of this step has re-armed the part: its error is cleared and
\* its time is now, and run_me is set unless the call has gone on to request it
Rearmed(old, new) ==
    /\ ~new.error
    /\ new.prev_update_time = now
    /\ new.run_me \/ new.state_requests_count = old.state_requests_count + 1

\* C30 as stated: a call of run that goes through a shard in the parts phase
\* leaves a part that is not done, in error and without last_target with run_me
\* false and error set while its timeout has not elapsed, and re-arms it when it
\* has; a part in error with last_target set is re-armed.
C30_NoRearmBeforeTimeout ==
    [][\A s \in Tracked : \A i \in DOMAIN sync_status[s].downloads :
         LET old == sync_status[s].downloads[i]
         IN  (InParts(s) /\ Passes(s) /\ InParts(s)' /\ ~old.done /\ old.error)
             => LET new == sync_status'[s].downloads[i]
                IN  IF old.last_target # NoPeer THEN Rearmed(old, new)
                    ELSE IF now - old.prev_update_time > Timeout
                    THEN new.done \/ Rearmed(old, new)
                    ELSE /\ new.error
                         /\ ~new.run_me
                         /\ new.prev_update_time = old.prev_update_time]_vars

\* C30: the same, but before the timeout the call sets neither run_me nor the
\* time of the part: run_me stays false if it was false.
C30_NoRearmBeforeTimeoutUnlessArmed ==
    [][\A s \in Tracked : \A i \in DOMAIN sync_status[s].downloads :
         LET old == sync_status[s].downloads[i]
         IN  (InParts(s) /\ Passes(s) /\ ~old.done /\ old.error)
             => IF old.last_target # NoPeer
                THEN InParts(s)' /\ Rearmed(old, sync_status'[s].downloads[i])
                ELSE InParts(s)' =>
                     LET new == sync_status'[s].downloads[i]
                     IN  IF now - old.prev_update_time > Timeout
                         THEN new.done \/ Rearmed(old, new)
                         ELSE /\ new.error
                              /\ new.prev_update_time = old.prev_update_time
                              /\ ~old.run_me => ~new.run_me]_vars

\* a call of run has left a part that failed its fetch waiting: time has passed
\* since the part was armed, the timeout has not
C30_Deferred ==
    /\ Returned
    /\ \E s \in Tracked : InParts(s) /\ \E i \in DOMAIN sync_status[s].downloads :
         LET d == sync_status[s].downloads[i]
         IN  /\ d.error /\ ~d.done /\ ~d.run_me
             /\ d.last_target = NoPeer
             /\ now > d.prev_update_time
             /\ now - d.prev_update_time <= Timeout

\* the results a fetch task of this or of the earlier sync may post
PossibleResults ==
    { [sync_hash |-> h, shard_id |-> s, part_id |-> p, part_result |-> r] :
        h \in {Hashes[1], Hashes[2]}, s \in Shards, p \in 0..MaxParts,
        r \in {"Ok", "Err"} }

\* the results in the channel that process_downloaded_parts hands to
\* process_part_response for part i of shard_id
Taken(shard_id, i, result) ==
    { k \in DOMAIN state_parts_mpsc :
        /\ state_parts_mpsc[k].sync_hash = Hash
        /\ state_parts_mpsc[k].shard_id = shard_id
        /\ state_parts_mpsc[k].part_id = i - 1
        /\ state_parts_mpsc[k].part_result = result }

\* C31: a result of this sync drained from the channel changes no DownloadStatus
\* if its shard has no record, is not in StateDownloadParts or has no download
\* at the result's index; otherwise it changes the DownloadStatus at that index
\* of that shard only, setting done on Ok and error on Err.  So the drain of the
\* whole channel leaves every shard outside the parts phase as it is, and sets
\* done or error of a part exactly if the channel holds such a result for it.
C31_ResultChangesOnePart ==
    /\ \A msg \in PossibleResults :
         LET s == msg.shard_id
             i == msg.part_id + 1
             ss == ProcessMessage(sync_status, Hash, msg)
         IN  IF \/ msg.sync_hash # Hash
                \/ StatusOf(s) # "StateDownloadParts"
                \/ msg.part_id >= Len(sync_status[s].downloads)
             THEN ss = sync_status
             ELSE /\ \A s2 \in Shards \ {s} : ss[s2] = sync_status[s2]
                  /\ ss[s].status = sync_status[s].status
                  /\ \A j \in DOMAIN sync_status[s].downloads :
                       j # i => ss[s].downloads[j] = sync_status[s].downloads[j]
                  /\ ss[s].downloads[i] =
                       IF msg.part_result = "Ok"
                       THEN [sync_status[s].downloads[i] EXCEPT !.done = TRUE]
                       ELSE [sync_status[s].downloads[i] EXCEPT !.error = TRUE]
    /\ LET ss == process_downloaded_parts(sync_status, Hash, state_parts_mpsc)
       IN  \A s \in Shards :
             IF ~InParts(s) THEN ss[s] = sync_status[s]
             ELSE /\ ss[s].status = "StateDownloadParts"
                  /\ DOMAIN ss[s].downloads = DOMAIN sync_status[s].downloads
                  /\ \A i \in DOMAIN sync_status[s].downloads :
                       LET old == sync_status[s].downloads[i]
                       IN  ss[s].downloads[i] =
                             [old EXCEPT
                                !.done = old.done \/ Taken(s, i, "Ok") # {},
                                !.error = old.error \/ Taken(s, i, "Err") # {}]

\* the channel holds an Ok and an Err result for two parts of a shard in the
\* parts phase, neither done nor in error yet
C31_ResultsToDrain ==
    /\ mode = "External"
    /\ \E s \in Tracked : InParts(s) /\ \E i, j \in DOMAIN sync_status[s].downloads :
         /\ i # j
         /\ Taken(s, i, "Ok") # {} /\ ~sync_status[s].downloads[i].done
         /\ Taken(s, j, "Err") # {} /\ ~sync_status[s].downloads[j].error

\* C32: in Peers mode received_requested_part(part_id, shard_id, hash) takes one
\* from the missing_parts of the ledger entry (target, shard_id) of the target
\* that requested_target has for (part_id, hash), and removes the entry if that
\* leaves none; every other ledger entry and all the rest of the state is as it
\* was, and so is everything if there is no such target or entry.  In external
\* mode it changes nothing.
C32_ReceivedRequestedPart ==
    \A part_id \in 0..MaxParts, shard_id \in Shards :
        LET st1 == received_requested_part(Current, part_id, shard_id, Hash)
            old == last_part_id_requested
            new == st1.last_part_id_requested
            key == <<part_id, Hash>>
        IN  /\ [st1 EXCEPT !.last_part_id_requested = old] = Current
            /\ IF mode = "Peers" /\ key \in DOMAIN requested_target
                  /\ <<requested_target[key], shard_id>> \in DOMAIN old
               THEN LET entry == <<requested_target[key], shard_id>>
                    IN  /\ old[entry].missing_parts >= 1
                        /\ \A e \in DOMAIN old \ {entry} :
                             e \in DOMAIN new /\ new[e] = old[e]
                        /\ DOMAIN new \subseteq DOMAIN old
                        /\ IF old[entry].missing_parts = 1
                           THEN entry \notin DOMAIN new
                           ELSE /\ entry \in DOMAIN new
                                /\ new[entry] =
                                     [old[entry] EXCEPT !.missing_parts = @ - 1]
               ELSE new = old

\* a peer has two parts of a shard to send and another peer has one
C32_CountsToTake ==
    /\ mode = "Peers"
    /\ \E k1, k2 \in DOMAIN requested_target, s \in Tracked :
         /\ k1[2] = Hash /\ k2[2] = Hash
         /\ requested_target[k1] # requested_target[k2]
         /\ <<requested_target[k1], s>> \in DOMAIN last_part_id_requested
         /\ <<requested_target[k2], s>> \in DOMAIN last_part_id_requested
         /\ last_part_id_requested[<<requested_target[k1], s>>].missing_parts = 2
         /\ last_part_id_requested[<<requested_target[k2], s>>].missing_parts = 1

\* the ledger entries that the handling of a response with part_id for shard_id
\* takes a part from
Decremented(part_id, shard_id) ==
    LET new == received_requested_part(Current, part_id, shard_id, Hash)
                   .last_part_id_requested
    IN  { e \in DOMAIN last_part_id_requested :
            e \notin DOMAIN new \/ new[e] # last_part_id_requested[e] }

\* C33: in Peers mode, the ledger entry that the response to a request of part i
\* of shard s takes a part from, if any, is of shard s and of a peer that part i
\* of shard s was requested from.
C33_DecrementGoesToSender ==
    \A r \in DOMAIN requests :
        (mode = "Peers" /\ r.routed /\ r.kind = "part" /\ InParts(r.shard_id)) =>
            \A e \in Decremented(r.part_id, r.shard_id) :
                /\ e[2] = r.shard_id
                /\ <<e[1], r.shard_id, r.part_id>> \in asked

\* C34: every entry of the pending-request ledger has between 1 and
\* MAX_STATE_PART_REQUEST missing parts, and a call of run sends no part request
\* of a shard to a peer that has an unexpired entry for that shard.
C34_LedgerCounts ==
    /\ [](\A e \in DOMAIN last_part_id_requested :
            /\ last_part_id_requested[e].missing_parts >= 1
            /\ last_part_id_requested[e].missing_parts <= MAX_STATE_PART_REQUEST)
    /\ [][run_result' # NoResult =>
            \A e \in DOMAIN last_part_id_requested :
                ~expired(last_part_id_requested[e], now) =>
                    /\ PartRequests(requests', e[1], e[2])
                         = PartRequests(requests, e[1], e[2])
                    /\ \A i \in 0..MaxParts :
                         <<e[1], e[2], i>> \in asked' => <<e[1], e[2], i>> \in asked]_vars

\* a peer has as many parts of a shard to send as a peer is asked for, and the
\* second of two calls of run in a row, given this peer, has left a part of the
\* shard waiting to be requested
C34_PeerAtItsLimit ==
    /\ mode = "Peers"
    /\ Returned
    /\ calls = 2
    /\ \E s \in Tracked :
         /\ InParts(s)
         /\ \E i \in DOMAIN run_peers :
              /\ <<run_peers[i], s>> \in DOMAIN last_part_id_requested
              /\ last_part_id_requested[<<run_peers[i], s>>].missing_parts
                   = MAX_STATE_PART_REQUEST
         /\ \E i \in DOMAIN sync_status[s].downloads :
              /\ sync_status[s].downloads[i].run_me
              /\ ~sync_status[s].downloads[i].done

\* C35: in external mode a call of run that goes through the first shard, in the
\* parts phase, with a permit free and a part that is not done and has run_me
\* set when the dispatcher reads the parts, spawns a fetch task, whatever
\* highest_height_peers the call is given.
C35_FetchedWithoutPeers ==
    [][\A s \in Tracked :
         (/\ mode = "External" /\ InParts(s) /\ Place(s) = 1 /\ Passes(s)
          /\ semaphore > 0
          /\ \E i \in RunMeAtDispatch(s) : ~Ingested(s, i).done)
         => TasksSpawned >= 1]_vars

\* C36: in external mode a call of run that goes through a shard in the parts
\* phase while no permit is free spawns no task and leaves state_requests_count
\* and last_target of every part of the shard as they were, with run_me set on
\* the parts that had it set when the dispatcher read them.
C36_NoPermitNoChange ==
    [][\A s \in Tracked :
         (/\ mode = "External" /\ InParts(s) /\ InParts(s)' /\ Passes(s)
          /\ semaphore = 0)
         => /\ TasksSpawned = 0
            /\ \A i \in DOMAIN sync_status[s].downloads :
                 LET old == Ingested(s, i)
                     new == sync_status'[s].downloads[i]
                 IN  /\ new.state_requests_count = old.state_requests_count
                     /\ new.last_target = old.last_target
                     /\ i \in RunMeAtDispatch(s) => new.run_me]_vars

\* C37: a call of run that goes through a shard does not take up again a header,
\* or in Peers mode a part, that was requested, has had neither a response nor a
\* RouteNotFound answer (not done, not in error, run_me not set) and whose
\* latest request was made no more than the timeout ago: run_me stays unset and
\* no further request is made.
C37_TimeoutFromRequest ==
    [][\A s \in Tracked : \A i \in DOMAIN sync_status[s].downloads :
         LET old == sync_status[s].downloads[i]
         IN  (/\ InHeader(s) \/ (InParts(s) /\ mode = "Peers")
              /\ Passes(s)
              /\ StatusOf(s)' = StatusOf(s)
              /\ ~old.done /\ ~old.error /\ ~old.run_me
              /\ i \in DOMAIN issued[s]
              /\ issued[s][i] # NoTime
              /\ now - issued[s][i] <= Timeout)
             => /\ ~sync_status'[s].downloads[i].run_me
                /\ sync_status'[s].downloads[i].state_requests_count
                     = old.state_requests_count]_vars

\* C38: a shard leaves StateDownloadApplying, within one sync, only in a call of
\* run that takes a posted apply result of the shard, which is then gone, and
\* the result is one that set_apply_result has posted since the shard entered
\* StateDownloadApplying: the application scheduled at that entry has ended.
C38_ApplyResultIsCurrent ==
    [][\A s \in Shards :
         (StatusOf(s) = "StateDownloadApplying"
          /\ StatusOf(s)' \notin {"StateDownloadApplying", "Absent"})
         => /\ run_result' # NoResult
            /\ state_parts_apply_results[s] # "None"
            /\ state_parts_apply_results'[s] = "None"
            /\ ~apply_scheduled[s]]_vars

\* C39: no call of run fails the assertion of request_shard_header: whenever
\* the header step of a shard has requests issued for a shard that stays in
\* StateDownloadHeader, the shard has one DownloadStatus and its run_me is set;
\* and every call that sends a header request leaves run_me unset.
C39_AssertRunMeHolds ==
    /\ [](/\ run_result.op # "assert run_me"
          /\ \A s \in Tracked :
               InHeader(s) =>
                 \A r \in sync_shards_download_header_status(Current, s, now) :
                   (r.run /\ r.err = "none"
                    /\ r.st.sync_status[s].status = "StateDownloadHeader")
                   => /\ Len(r.st.sync_status[s].downloads) = 1
                      /\ r.st.sync_status[s].downloads[1].run_me)
    /\ [][\A s \in Tracked, p \in Peers :
            HeaderRequests(requests', p, s) > HeaderRequests(requests, p, s)
            => /\ run_result' # NoResult
               /\ run_result'.kind # "Panic"
               /\ InHeader(s)'
               /\ ~sync_status'[s].downloads[1].run_me]_vars

\* a call of run has requested the header of a shard a second time, after
\* the first request found no route
C39_HeaderRequestedAgain ==
    /\ Returned
    /\ now = 0
    /\ \E s \in Tracked :
         /\ InHeader(s)
         /\ sync_status[s].downloads[1].state_requests_count = 2
         /\ ~sync_status[s].downloads[1].run_me
         /\ ~sync_status[s].downloads[1].done
         /\ \E p \in Peers : HeaderRequests(requests, p, s) = 1

\* C40: in a sync in which everything that is asked for is given, every shard
\* of tracking_shards gets to StateSyncDone and run returns Completed, and no
\* DownloadStatus stays for ever with neither run_me nor done set.
C40_EventuallyCompleted ==
    /\ <>(/\ run_result.kind = "Completed"
          /\ \A s \in Tracked : StatusOf(s) = "StateSyncDone")
    /\ \A s \in Shards : \A i \in 1..MaxParts :
         ~<>[](/\ i \in DOMAIN sync_status[s].downloads
               /\ ~sync_status[s].downloads[i].run_me
               /\ ~sync_status[s].downloads[i].done)

====
